---- MODULE Spec2Model ----
(***************************************************************************)
(* The bookmark store of Lagrange (src/src/bookmarks.c): an id-keyed hash  *)
(* of bookmark records behind one recursive mutex.                         *)
(*                                                                         *)
(* Spec        the store driven by one caller; every action is one whole   *)
(*             call of a store function.                                   *)
(* SpecOrder   one caller again, with reorder_Bookmarks: load, add, remove  *)
(*             and reorder over small integer orders.                      *)
(* SpecThreads the same functions run by several threads, one action per   *)
(*             step between the points where another thread can interleave *)
(*             (lock, unlock, and every access made without the lock).     *)
(* SpecSort    load, add and sort_Bookmarks with both comparison functions. *)
(* SpecIcons   load, add, updateBookmarkIcon, setRecentFolder and           *)
(*             list_Bookmarks over tagged bookmarks.                       *)
(* SpecSync    save_Bookmarks, load_Bookmarks of the saved file, and the   *)
(*             remote bookmarks: fetchRemote_Bookmarks and                 *)
(*             requestFinished_Bookmarks.                                  *)
(* SpecFetchThreads  add_Bookmarks and fetchRemote_Bookmarks run by several*)
(*             threads, step by step.                                      *)
(* SpecShutdown  SpecSync followed by deinit_Bookmarks.                    *)
(* SpecFileThreads  add_Bookmarks, load_Bookmarks and save_Bookmarks run by*)
(*             several threads, step by step.                              *)
(* SpecTags    addTag_Bookmark and removeTag_Bookmark on the tag string of *)
(*             one bookmark, character by character.                       *)
(* SpecLegacy  load_Bookmarks of a directory that may hold bookmarks.ini,  *)
(*             the old bookmarks file, both or neither.                    *)
(* SpecAlloc   load, add and remove with the id allocator running further. *)
(* SpecCycle   add, remove, reorder, sort and the sync cycles from the     *)
(*             empty store.                                                *)
(* SpecDrain   the sync cycles, every request finishing in the end.        *)
(* SpecRecent  the recent folder: load, add, setRecentFolder, remove, clear*)
(*             and the sync cycles.                                        *)
(* SpecTeardown  the requests' signals, the commands they post and         *)
(*             deinit_Bookmarks.                                           *)
(* SpecFinishThreads  add, fetchRemote, requestFinished and list_Bookmarks *)
(*             run by several threads, step by step.                       *)
(* SpecLocks   the lock and unlock operations of every call path, by       *)
(*             several threads.                                            *)
(*                                                                         *)
(* Beside the store, the progress indicators of the documents              *)
(* (src/src/ui/indicatorwidget.c) and their common refresh timer:          *)
(* SpecIndicators  indicators made and destroyed, the request commands and *)
(*             the refresh events.                                         *)
(***************************************************************************)
EXTENDS Integers, Sequences, FiniteSets, TLC

\* ------------------------------------------------------------------ bounds
MaxId      == 2    \* add is offered while idEnum < MaxId
MaxTime    == 1    \* the clock ticks up to MaxTime
MaxFileLen == 3    \* table blocks in a loaded bookmarks.ini
MaxOrder   == 1    \* reorder is offered for newOrder in 0..MaxOrder, while orders <= MaxOrder
MaxTagLen  == 4    \* a tag string has up to MaxTagLen characters at the start
MaxIndicators == 2 \* the indicator widgets there can be at a time

\* ------------------------------------------------------------ store state
VARIABLES
    bookmarks,        \* Impl_Bookmarks.bookmarks : hash, id -> record
    idEnum,           \* Impl_Bookmarks.idEnum
    recentFolderId,   \* Impl_Bookmarks.recentFolderId
    addBookmarksToBottom,  \* prefs_App()->addBookmarksToBottom
    now,              \* the clock read by initCurrent_Time
    call              \* the last call of the single caller: its arguments and its result

\* ----------------------------------------------------------- thread state
VARIABLES
    mtx,              \* Impl_Bookmarks.mtx : owner and recursion depth
    pc,               \* per thread: the step it is at
    loc,              \* per thread: locals of the running call
    dangling,         \* per thread: record pointers it holds whose record has been freed
    log               \* history: the ids ever inserted, and whether clear has run

\* ------------------------------------------------- requests and the file
VARIABLES
    remoteRequests,   \* Impl_Bookmarks.remoteRequests : the requests not yet finished
    disk,             \* bookmarks.ini as save_Bookmarks last wrote it
    remoteSourceTag,  \* remoteSource_BookmarkTag as the header of the build spells it
    commands          \* the "bookmarks.request.finished" commands posted and not yet handled

\* ------------------------------------------------------- the indicators
VARIABLES
    timerId_,         \* indicatorwidget.c timerId_ : the common timer, 0 for none
    animCount_,       \* indicatorwidget.c animCount_ : number of animating indicators
    widgets,          \* the indicator widgets: the flag selected and the animation pos
    timers            \* the SDL timers that are running

uiVars == <<timerId_, animCount_, widgets, timers>>

storeVars  == <<bookmarks, idEnum, recentFolderId>>
callerVars == <<addBookmarksToBottom, now, call>>
threadVars == <<mtx, pc, loc, dangling, log>>
syncVars   == <<remoteRequests, disk, remoteSourceTag, commands, uiVars>>
vars       == <<bookmarks, idEnum, recentFolderId, addBookmarksToBottom, now, call,
               mtx, pc, loc, dangling, log, remoteRequests, disk, remoteSourceTag, commands, uiVars>>

\* The indicators there can be, an indicator being the progress bar of one
\* document.
Indicators == 1..MaxIndicators

\* The ids SDL_AddTimer hands out: nonzero, and never one of a running timer.
TimerIds == {1, 2}

\* The values of an animation that the code tells apart, in hundredths: 0,
\* 0.01 (the threshold of "finished"), one value on the way, 0.75 and 1.0.
Levels == {0, 1, 40, 75, 100}

\* No indicator at this place.
NoWidget == [alive |-> FALSE]

\* init_IndicatorWidget: no flag selected, pos at 0 and at rest.
NewWidget == [alive |-> TRUE, selected |-> FALSE, value |-> 0, target |-> 0]

\* The statics of indicatorwidget.c at program start, and no indicator yet.
IndicatorsInit ==
    /\ timerId_ = 0
    /\ animCount_ = 0
    /\ widgets = [w \in Indicators |-> NoWidget]
    /\ timers = {}

\* isFinished_Anim: the animation has reached its target.
isFinished_Anim(d) == d.value = d.target

\* setValue_Anim(pos, v, span): the new target; with a span of 0 the value is
\* there at once.
setValue_Anim(d, v, span) ==
    IF span = 0 THEN [d EXCEPT !.value = v, !.target = v] ELSE [d EXCEPT !.target = v]

\* isActive_IndicatorWidget_ : the flag selected of the widget.
isActive_IndicatorWidget_(d) == d.selected

\* startTimer_ : one more animating indicator; the timer is added when there
\* is none.
startTimer_ ==
    /\ animCount_' = animCount_ + 1
    /\ IF timerId_ = 0
       THEN \E id \in TimerIds \ timers :
               /\ timerId_' = id
               /\ timers' = timers \cup {id}
       ELSE UNCHANGED <<timerId_, timers>>

\* stopTimer_ : one animating indicator less; the timer is removed with the
\* last one.
stopTimer_ ==
    /\ animCount_' = animCount_ - 1
    /\ IF animCount_ - 1 = 0
       THEN /\ timers' = timers \ {timerId_}
            /\ timerId_' = 0
       ELSE UNCHANGED <<timerId_, timers>>

\* startTimer_IndicatorWidget_ without the test of the flag: startTimer_ is
\* called for an indicator that is active already.
StartAlways(w, d) ==
    /\ startTimer_
    /\ widgets' = [widgets EXCEPT ![w] = [d EXCEPT !.selected = TRUE]]

\* startTimer_IndicatorWidget_ for the indicator w, d being the widget after
\* the handler's writes to pos.
startTimer_IndicatorWidget_(w, d) ==
    IF ~isActive_IndicatorWidget_(d)
    THEN /\ startTimer_
         /\ widgets' = [widgets EXCEPT ![w] = [d EXCEPT !.selected = TRUE]]
    ELSE /\ widgets' = [widgets EXCEPT ![w] = d]
         /\ UNCHANGED <<timerId_, animCount_, timers>>

\* stopTimer_IndicatorWidget_ for the indicator w.
stopTimer_IndicatorWidget_(w, d) ==
    IF isActive_IndicatorWidget_(d)
    THEN /\ stopTimer_
         /\ widgets' = [widgets EXCEPT ![w] = [d EXCEPT !.selected = FALSE]]
    ELSE /\ widgets' = [widgets EXCEPT ![w] = d]
         /\ UNCHANGED <<timerId_, animCount_, timers>>

\* new_IndicatorWidget at a free place.
init_IndicatorWidget(w) ==
    /\ ~widgets[w].alive
    /\ widgets' = [widgets EXCEPT ![w] = NewWidget]
    /\ UNCHANGED <<timerId_, animCount_, timers>>

\* deinit_IndicatorWidget: the timer is released and the widget is gone.
deinit_IndicatorWidget(w) ==
    /\ widgets[w].alive
    /\ IF isActive_IndicatorWidget_(widgets[w])
       THEN stopTimer_
       ELSE UNCHANGED <<timerId_, animCount_, timers>>
    /\ widgets' = [widgets EXCEPT ![w] = NoWidget]

\* Time passes: the animation of w moves towards its target.
animate(w) ==
    /\ widgets[w].alive
    /\ \E v \in Levels :
          /\ widgets[w].value < v
          /\ v <= widgets[w].target
          /\ widgets' = [widgets EXCEPT ![w].value = v]
    /\ UNCHANGED <<timerId_, animCount_, timers>>

\* processEvent_IndicatorWidget_ for a refresh event.
refreshEvent(w) ==
    /\ widgets[w].alive
    /\ IF isFinished_Anim(widgets[w])
       THEN stopTimer_IndicatorWidget_(w, widgets[w])
       ELSE UNCHANGED uiVars

\* processEvent_IndicatorWidget_ for "document.request.started" of the
\* document of w.
requestStarted(w) ==
    /\ widgets[w].alive
    /\ startTimer_IndicatorWidget_(w, setValue_Anim(setValue_Anim(widgets[w], 0, 0), 75, 4000))

\* ... for "document.request.finished".
requestFinished(w) ==
    /\ widgets[w].alive
    /\ IF widgets[w].value > 1
       THEN startTimer_IndicatorWidget_(w, setValue_Anim(widgets[w], 100, 250))
       ELSE stopTimer_IndicatorWidget_(w, setValue_Anim(widgets[w], 0, 0))

\* ... for "document.request.cancelled".
requestCancelled(w) ==
    /\ widgets[w].alive
    /\ stopTimer_IndicatorWidget_(w, setValue_Anim(widgets[w], 0, 0))

\* The indicators of the window: made and destroyed, sent the commands of
\* their documents and the refresh events, in any order. The bookmark store
\* takes no part.
NextIndicators ==
    \/ \E w \in Indicators : init_IndicatorWidget(w) /\ UNCHANGED <<storeVars, callerVars, threadVars, remoteRequests, disk, remoteSourceTag, commands>>
    \/ \E w \in Indicators : deinit_IndicatorWidget(w) /\ UNCHANGED <<storeVars, callerVars, threadVars, remoteRequests, disk, remoteSourceTag, commands>>
    \/ \E w \in Indicators : animate(w) /\ UNCHANGED <<storeVars, callerVars, threadVars, remoteRequests, disk, remoteSourceTag, commands>>
    \/ \E w \in Indicators : refreshEvent(w) /\ UNCHANGED <<storeVars, callerVars, threadVars, remoteRequests, disk, remoteSourceTag, commands>>
    \/ \E w \in Indicators : requestStarted(w) /\ UNCHANGED <<storeVars, callerVars, threadVars, remoteRequests, disk, remoteSourceTag, commands>>
    \/ \E w \in Indicators : requestFinished(w) /\ UNCHANGED <<storeVars, callerVars, threadVars, remoteRequests, disk, remoteSourceTag, commands>>
    \/ \E w \in Indicators : requestCancelled(w) /\ UNCHANGED <<storeVars, callerVars, threadVars, remoteRequests, disk, remoteSourceTag, commands>>

\* ------------------------------------------------------------------- URLs
\* A URL string as its parts; "" / <<>> / 0 for a part that is absent.
EmptyUrl == [scheme |-> "", host |-> "", port |-> 0, path |-> <<>>]

Url(host, port, path) == [scheme |-> "gemini", host |-> host, port |-> port, path |-> path]

GeminiDefaultPort == 1965

\* Canonical form: default port stripped, explicit root path when empty.
canonicalUrl_String(u) ==
    IF u = EmptyUrl THEN u
    ELSE [u EXCEPT !.port = IF u.port = GeminiDefaultPort THEN 0 ELSE u.port,
                   !.path = IF u.path = <<>> THEN <<"/">> ELSE u.path]

LowerChar(c) == IF c = "X" THEN "x" ELSE IF c = "A" THEN "a" ELSE c

LowerSeq(s) == [i \in 1..Len(s) |-> LowerChar(s[i])]

\* equalCase_String: equality of the two strings ignoring letter case.
equalCase_String(u, v) ==
    /\ u.scheme = v.scheme
    /\ u.host = v.host
    /\ u.port = v.port
    /\ LowerSeq(u.path) = LowerSeq(v.path)

\* ---------------------------------------------------------------- records
NoTags == <<>>

\* init_Bookmark: empty strings, zeroed time, parentId 0, order 0.
\* (icon is set by every caller modelled here before it is read.)
init_Bookmark ==
    [url |-> EmptyUrl, title |-> "", tags |-> NoTags, icon |-> 0,
     when |-> 0, parentId |-> 0, order |-> 0]

NoBm == [none |-> TRUE]

Ids == DOMAIN bookmarks

\* get_Bookmarks: value_Hash, NULL when the key is absent.
get_Bookmarks(bms, id) == IF id \in DOMAIN bms THEN bms[id] ELSE NoBm

\* isFolder_Bookmark: a bookmark without a URL.
isFolder_Bookmark(bm) == bm.url = EmptyUrl

\* hasParent_Bookmark: bm is directly inside the folder parentId.
hasParent_Bookmark(bm, parentId) == bm.parentId = parentId

\* filterInsideFolder_Bookmark(context = the folder's id, bm)
filterInsideFolder_Bookmark(folderId, bm) == hasParent_Bookmark(bm, folderId)

\* insertId_Bookmarks_: insert_Hash replaces a node that has the same key.
insertId_Bookmarks_(bms, bm, id) ==
    [i \in DOMAIN bms \cup {id} |-> IF i = id THEN bm ELSE bms[i]]

RemoveKeys(bms, ks) == [i \in DOMAIN bms \ ks |-> bms[i]]

\* list_Bookmarks without the sort: the ids of the records the filter accepts.
\* accepted is the set of records for which the filter, with its context,
\* answers true.
list_Bookmarks(bms, accepted) == {i \in DOMAIN bms : bms[i] \in accepted}

\* The records of the store, as the iterator of list_Bookmarks visits them.
Records(bms) == {bms[i] : i \in DOMAIN bms}

\* The tag string is modelled as its space-separated tokens, each token as the
\* words that its hyphens separate: "remote-source x" is
\* << <<"remote", "source">>, <<"x">> >>.
remote_BookmarkTag == <<"remote">>

remoteSource_BookmarkTag == <<"remote", "source">>

userIcon_BookmarkTag == <<"user", "icon">>

\* The spellings of the remote source tag: with the hyphen, and as one word.
RemoteSourceSpellings == {remoteSource_BookmarkTag, <<"remotesource">>}

\* ------------------------------------------------------------------ inputs
UrlRootRaw == Url("a", GeminiDefaultPort, <<>>)    \* gemini://a:1965
UrlRoot    == Url("a", 0, <<"/">>)                 \* gemini://a/
UrlLowerX  == Url("a", 0, <<"/", "x">>)            \* gemini://a/x
UrlUpperX  == Url("a", 0, <<"/", "X">>)            \* gemini://a/X

RemoteTags == << <<"remote">> >>

\* The arguments add_Bookmarks is called with; a NULL url or tags is the empty value.
AddArgs ==
    { [url |-> UrlRootRaw, title |-> "A", tags |-> NoTags,     icon |-> 65],
      [url |-> UrlRoot,    title |-> "b", tags |-> RemoteTags, icon |-> 0],
      [url |-> EmptyUrl,   title |-> "A", tags |-> NoTags,     icon |-> 0] }

\* The one kind of bookmark added where only the order field is looked at.
OrderAddArgs == {a \in AddArgs : a.url = UrlRootRaw}

FindArgs == {UrlRootRaw, UrlLowerX, EmptyUrl}

NewOrders == 0..MaxOrder

\* A table block of bookmarks.ini: the table id and the values of its keys;
\* keys tells which of the keys parent and order the block has.
Block(id, url, created, parent, order) ==
    [id |-> id, url |-> url, title |-> "A", tags |-> NoTags, icon |-> 65,
     created |-> created, parent |-> parent, order |-> order,
     keys |-> {"parent", "order"}]

FileBlocks ==
    { Block(1, EmptyUrl,  0, 0, 1),      \* a folder
      Block(1, UrlRoot,   1, 0, 1),      \* a bookmark created at time 1
      Block(2, UrlRoot,   1, 1, 1),      \* inside 1
      Block(3, UrlLowerX, 0, 2, 0),      \* inside 2
      Block(3, UrlRoot,   0, 1, 1),      \* inside 1, with the order of block 2
      Block(0, UrlUpperX, 0, 0, 1) }     \* the table [0]

RECURSIVE SeqsUpTo(_, _)
SeqsUpTo(S, n) ==
    IF n = 0 THEN {<<>>}
    ELSE LET shorter == SeqsUpTo(S, n - 1)
         IN  shorter \cup {Append(q, x) : q \in {r \in shorter : Len(r) = n - 1}, x \in S}

\* A bookmarks.ini: an optional recentfolder key (the set of its values), then
\* table blocks.
Files == [recentfolder : {{}, {1}}, blocks : SeqsUpTo(FileBlocks, MaxFileLen)]

\* ------------------------------------------------------------ call records
NoCall == [op |-> "none"]

\* What a call remembers of the mutating call made before it.
Summary(c) ==
    IF c.op = "add" THEN [op |-> "add", url |-> c.url, ret |-> c.ret]
    ELSE IF c.op = "remove" THEN [op |-> "remove", id |-> c.id, ret |-> c.ret]
    ELSE [op |-> c.op]

\* ------------------------------------------------------------- operations
\* orderRange_Bookmarks_: {start, end} over the hash, one record at a time.
RECURSIVE orderRangeFrom(_, _, _)
orderRangeFrom(bms, todo, ord) ==
    IF todo = {} THEN ord
    ELSE LET i  == CHOOSE x \in todo : TRUE
             bm == bms[i]
             nx == IF ord.start = ord.end     \* isEmpty_Range
                   THEN [start |-> bm.order, end |-> bm.order + 1]
                   ELSE [start |-> IF bm.order < ord.start THEN bm.order ELSE ord.start,
                         end   |-> IF bm.order + 1 > ord.end THEN bm.order + 1 ELSE ord.end]
         IN  orderRangeFrom(bms, todo \ {i}, nx)

orderRange_Bookmarks_(bms) == orderRangeFrom(bms, DOMAIN bms, [start |-> 0, end |-> 0])

\* add_Bookmarks storing the URL as given.
NewBookmarkRawUrl(bms, a, toBottom, time) ==
    LET ord == orderRange_Bookmarks_(bms)
    IN  [init_Bookmark EXCEPT
            !.url   = a.url,
            !.title = a.title,
            !.tags  = a.tags,
            !.icon  = a.icon,
            !.when  = time,
            !.order = IF toBottom THEN ord.end ELSE ord.start - 1]

\* add_Bookmarks appending at the greatest order in use, not after it.
NewBookmarkAtMax(bms, a, toBottom, time) ==
    LET ord == orderRange_Bookmarks_(bms)
    IN  [init_Bookmark EXCEPT
            !.url   = IF a.url = EmptyUrl THEN EmptyUrl ELSE canonicalUrl_String(a.url),
            !.title = a.title,
            !.tags  = a.tags,
            !.icon  = a.icon,
            !.when  = time,
            !.order = IF toBottom THEN ord.end - 1 ELSE ord.start - 1]

\* add_Bookmarks placing a bookmark first at the least order in use, not
\* before it.
NewBookmarkAtMin(bms, a, toBottom, time) ==
    LET ord == orderRange_Bookmarks_(bms)
    IN  [init_Bookmark EXCEPT
            !.url   = IF a.url = EmptyUrl THEN EmptyUrl ELSE canonicalUrl_String(a.url),
            !.title = a.title,
            !.tags  = a.tags,
            !.icon  = a.icon,
            !.when  = time,
            !.order = IF toBottom THEN ord.end ELSE ord.start]

\* The record add_Bookmarks builds before inserting it.
NewBookmark(bms, a, toBottom, time) ==
    LET ord == orderRange_Bookmarks_(bms)
    IN  [init_Bookmark EXCEPT
            !.url   = IF a.url = EmptyUrl THEN EmptyUrl ELSE canonicalUrl_String(a.url),
            !.title = a.title,
            !.tags  = a.tags,
            !.icon  = a.icon,
            !.when  = time,
            !.order = IF toBottom THEN ord.end ELSE ord.start - 1]

\* add_Bookmarks, with insert_Bookmarks_ : the key is ++idEnum.
AddCall(a) ==
    /\ idEnum' = idEnum + 1
    /\ bookmarks' = insertId_Bookmarks_(bookmarks, NewBookmark(bookmarks, a, addBookmarksToBottom, now),
                                        idEnum + 1)
    /\ call' = [op |-> "add", url |-> a.url, title |-> a.title, tags |-> a.tags,
                icon |-> a.icon, ret |-> idEnum + 1]
    /\ UNCHANGED <<recentFolderId, addBookmarksToBottom, now>>

\* add_Bookmarks while the allocator is within the bound.
add_Bookmarks(a) == idEnum < MaxId /\ AddCall(a)

\* remove_Bookmarks looking the record up without taking it out of the hash.
RemovedChildrenOnly(bms, id) ==
    IF id \notin DOMAIN bms THEN bms
    ELSE RemoveKeys(bms, list_Bookmarks(bms, {bm \in Records(bms) : filterInsideFolder_Bookmark(id, bm)}) \ {id})

\* remove_Bookmarks without the loop over the contained bookmarks.
RemovedNoCascade(bms, id) == RemoveKeys(bms, {id})

\* The hash after remove_Bookmarks(id): the record and the records inside it.
Removed(bms, id) ==
    IF id \notin DOMAIN bms THEN bms
    ELSE LET rest == RemoveKeys(bms, {id})
             kids == list_Bookmarks(rest, {bm \in Records(rest) : filterInsideFolder_Bookmark(id, bm)})
         IN  RemoveKeys(rest, kids)

remove_Bookmarks(id) ==
    /\ bookmarks' = Removed(bookmarks, id)
    /\ call' = [op |-> "remove", id |-> id, ret |-> id \in DOMAIN bookmarks,
                pre |-> Summary(call)]
    /\ UNCHANGED <<idEnum, recentFolderId, addBookmarksToBottom, now>>

\* reorder_Bookmarks comparing with > instead of >=.
ReorderedStrict(bms, id, newOrder) ==
    [i \in DOMAIN bms |->
        IF i = id THEN [bms[i] EXCEPT !.order = newOrder]
        ELSE IF bms[i].order > newOrder THEN [bms[i] EXCEPT !.order = @ + 1]
        ELSE bms[i]]

\* reorder_Bookmarks shifting every other record.
ReorderedShiftAll(bms, id, newOrder) ==
    [i \in DOMAIN bms |->
        IF i = id THEN [bms[i] EXCEPT !.order = newOrder]
        ELSE [bms[i] EXCEPT !.order = @ + 1]]

\* reorder_Bookmarks: one pass over the hash.
Reordered(bms, id, newOrder) ==
    [i \in DOMAIN bms |->
        IF i = id THEN [bms[i] EXCEPT !.order = newOrder]
        ELSE IF bms[i].order >= newOrder THEN [bms[i] EXCEPT !.order = @ + 1]
        ELSE bms[i]]

reorder_Bookmarks(id, newOrder) ==
    /\ \A i \in DOMAIN bookmarks : bookmarks[i].order <= MaxOrder
    /\ bookmarks' = Reordered(bookmarks, id, newOrder)
    /\ call' = [op |-> "reorder", id |-> id, newOrder |-> newOrder]
    /\ UNCHANGED <<idEnum, recentFolderId, addBookmarksToBottom, now>>

EmptyHash == [i \in {} |-> NoBm]

clear_Bookmarks ==
    /\ bookmarks' = EmptyHash
    /\ idEnum' = 0
    /\ call' = [op |-> "clear"]
    /\ UNCHANGED <<recentFolderId, addBookmarksToBottom, now>>

\* The clock and the field when count in ticks, TicksPerSecond to the second:
\* an iTime has a part below the second.
TicksPerSecond == 2

\* initSeconds_Time of a whole number of seconds.
initSeconds_Time(seconds) == seconds * TicksPerSecond

\* handleTable_BookmarkLoader_ and handleKeyValue_BookmarkLoader_ for one
\* block; a key the block does not have leaves the field as init_Bookmark set it.
LoadedBookmark(b) ==
    [init_Bookmark EXCEPT
        !.url = b.url, !.title = b.title, !.tags = b.tags, !.icon = b.icon,
        !.when = initSeconds_Time(b.created),
        !.parentId = IF "parent" \in b.keys THEN b.parent ELSE @,
        !.order = IF "order" \in b.keys THEN b.order ELSE @]

\* The callbacks with handleTable_BookmarkLoader_ leaving idEnum as it is.
RECURSIVE LoadBlocksNoMark(_, _)
LoadBlocksNoMark(st, blocks) ==
    IF blocks = <<>> THEN st
    ELSE LET b == Head(blocks)
         IN  LoadBlocksNoMark([bms  |-> insertId_Bookmarks_(st.bms, LoadedBookmark(b), b.id),
                               enum |-> st.enum],
                              Tail(blocks))

RECURSIVE LoadBlocks(_, _)
LoadBlocks(st, blocks) ==
    IF blocks = <<>> THEN st
    ELSE LET b == Head(blocks)
         IN  LoadBlocks([bms  |-> insertId_Bookmarks_(st.bms, LoadedBookmark(b), b.id),
                         enum |-> IF b.id > st.enum THEN b.id ELSE st.enum],
                        Tail(blocks))

\* load_Bookmarks of a bookmarks.ini that can be opened: clear_Bookmarks, then
\* the parser's callbacks. The application loads once, when it starts.
load_Bookmarks(f) ==
    LET st == LoadBlocks([bms |-> EmptyHash, enum |-> 0], f.blocks)
    IN  /\ call = NoCall
        /\ bookmarks' = st.bms
        /\ idEnum' = st.enum
        /\ recentFolderId' = IF f.recentfolder = {} THEN recentFolderId
                              ELSE CHOOSE v \in f.recentfolder : TRUE
        /\ call' = [op |-> "load"]
            /\ UNCHANGED <<addBookmarksToBottom, now>>

\* findUrl_Bookmarks comparing with the URL as given.
findUrl_NoCanonical(bms, url) ==
    LET found == list_Bookmarks(bms, {bm \in Records(bms) : equalCase_String(url, bm.url)})
    IN  IF found = {} THEN {0}
        ELSE {i \in found : \A j \in found : bms[j].when <= bms[i].when}

\* findUrl_Bookmarks: the front of the matches sorted by descending time. The
\* sort leaves the order of records of equal time open, so this is the set of
\* the values the call can return.
findUrl_Bookmarks(bms, url) ==
    LET key   == canonicalUrl_String(url)
        found == list_Bookmarks(bms, {bm \in Records(bms) : equalCase_String(key, bm.url)})
    IN  IF found = {} THEN {0}
        ELSE {i \in found : \A j \in found : bms[j].when <= bms[i].when}

Tick ==
    /\ now < MaxTime
    /\ now' = now + 1
    /\ UNCHANGED <<bookmarks, idEnum, recentFolderId, addBookmarksToBottom, call>>

QueryIds == 0..(MaxId + 1)

\* ------------------------------------------------------------ single caller
ThreadInit ==
    /\ mtx = [owner |-> "none", depth |-> 0]
    /\ pc = [t \in {"t1", "t2"} |-> "idle"]
    /\ loc = [t \in {"t1", "t2"} |-> [op |-> "none"]]
    /\ dangling = [t \in {"t1", "t2"} |-> {}]
    /\ log = [ever |-> {}, cleared |-> FALSE]

\* init_Bookmarks: no request; nothing saved yet.
NoFile == [none |-> TRUE]

SyncInit ==
    /\ remoteRequests = {}
    /\ disk = NoFile
    /\ commands = {}
    /\ IndicatorsInit
    /\ remoteSourceTag = remoteSource_BookmarkTag

Init ==
    /\ bookmarks = EmptyHash
    /\ idEnum = 0
    /\ recentFolderId = 0
    /\ addBookmarksToBottom \in BOOLEAN
    /\ now = 0
    /\ call = NoCall
    /\ ThreadInit
    /\ SyncInit

Next ==
    \/ \E a \in AddArgs : add_Bookmarks(a) /\ UNCHANGED <<threadVars, syncVars>>
    \/ \E id \in QueryIds : remove_Bookmarks(id) /\ UNCHANGED <<threadVars, syncVars>>
    \/ clear_Bookmarks /\ UNCHANGED <<threadVars, syncVars>>
    \/ \E f \in Files : load_Bookmarks(f) /\ UNCHANGED <<threadVars, syncVars>>
    \/ Tick /\ UNCHANGED <<threadVars, syncVars>>

Spec == Init /\ [][Next]_vars

\* The table ids of FileBlocks go up to 3: add is offered MaxId times after
\* the largest of them.
MaxAlloc == MaxId + 3

\* load of a bookmarks.ini, then add, and remove of a bookmark of the store.
NextAlloc ==
    \/ \E f \in Files : load_Bookmarks(f) /\ UNCHANGED <<threadVars, syncVars>>
    \/ \E a \in OrderAddArgs : idEnum < MaxAlloc /\ AddCall(a) /\ UNCHANGED <<threadVars, syncVars>>
    \/ \E id \in DOMAIN bookmarks : remove_Bookmarks(id) /\ UNCHANGED <<threadVars, syncVars>>

SpecAlloc == Init /\ [][NextAlloc]_vars

\* The calls that read and write the order field.
NextOrder ==
    \/ \E a \in OrderAddArgs : add_Bookmarks(a) /\ UNCHANGED <<threadVars, syncVars>>
    \/ \E id \in QueryIds : remove_Bookmarks(id) /\ UNCHANGED <<threadVars, syncVars>>
    \/ \E id \in DOMAIN bookmarks, n \in NewOrders :
          reorder_Bookmarks(id, n) /\ UNCHANGED <<threadVars, syncVars>>
    \/ \E f \in Files : load_Bookmarks(f) /\ UNCHANGED <<threadVars, syncVars>>

SpecOrder == Init /\ [][NextOrder]_vars

\* ----------------------------------------------------------------- threads
Threads == {"t1", "t2"}

NoThread == "none"

Idle == [op |-> "none"]

\* lock_Mutex of a mutex that is not recursive.
CanLockPlain(t) == mtx.owner = NoThread

\* lock_Mutex: the mutex is recursive; a thread waits while another owns it.
CanLock(t) == mtx.owner \in {NoThread, t}

Locked(t) == [owner |-> t, depth |-> mtx.depth + 1]

Unlocked == IF mtx.depth > 1 THEN [mtx EXCEPT !.depth = @ - 1]
            ELSE [owner |-> NoThread, depth |-> 0]

\* The record pointers thread t holds in its locals.
Held(t) == IF loc[t].op = "none" THEN {} ELSE loc[t].ptrs

\* delete_Bookmark of the records with the keys ks: every thread that holds a
\* pointer to one of them now holds a dangling pointer.
Freeing(ks) == [t \in Threads |-> dangling[t] \cup (Held(t) \cap ks)]

\* What a read through the record pointer p yields in thread t: the value read,
\* or anything when the record has been freed.
ReadVia(t, p, value, anything) == IF p \in dangling[t] THEN anything ELSE {value}

Return(t) ==
    /\ pc' = [pc EXCEPT ![t] = "idle"]
    /\ loc' = [loc EXCEPT ![t] = Idle]
    /\ dangling' = [dangling EXCEPT ![t] = {}]

ThreadAddArgs == {a \in AddArgs : a.title = "A"}

\* add_Bookmarks, lines 357-377.
add_lock(t, a) ==
    /\ pc[t] = "idle"
    /\ idEnum < MaxId
    /\ CanLock(t)
    /\ mtx' = Locked(t)
    /\ pc' = [pc EXCEPT ![t] = "add_body"]
    /\ loc' = [loc EXCEPT ![t] = [op |-> "add", arg |-> a, ptrs |-> {}]]
    /\ UNCHANGED <<bookmarks, idEnum, recentFolderId, dangling, log>>

add_body(t) ==
    /\ pc[t] = "add_body"
    /\ idEnum' = idEnum + 1
    /\ bookmarks' = insertId_Bookmarks_(bookmarks,
                        NewBookmark(bookmarks, loc[t].arg, addBookmarksToBottom, now),
                        idEnum + 1)
    /\ loc' = [loc EXCEPT ![t] = [op |-> "add", key |-> idEnum + 1, ptrs |-> {idEnum + 1}]]
    /\ log' = [log EXCEPT !.ever = @ \cup {idEnum + 1}]
    /\ pc' = [pc EXCEPT ![t] = "add_unlock"]
    /\ UNCHANGED <<recentFolderId, mtx, dangling>>

add_unlock(t) ==
    /\ pc[t] = "add_unlock"
    /\ mtx' = Unlocked
    /\ pc' = [pc EXCEPT ![t] = "add_return"]
    /\ UNCHANGED <<bookmarks, idEnum, recentFolderId, loc, dangling, log>>

\* return id_Bookmark(bm), after the unlock.
add_return(t) ==
    /\ pc[t] = "add_return"
    /\ \E r \in ReadVia(t, loc[t].key, loc[t].key, QueryIds) :
          loc' = [loc EXCEPT ![t] = [op |-> "add", key |-> loc[t].key, ret |-> r, ptrs |-> {}]]
    /\ pc' = [pc EXCEPT ![t] = "add_done"]
    /\ UNCHANGED <<bookmarks, idEnum, recentFolderId, mtx, dangling, log>>

add_done(t) ==
    /\ pc[t] = "add_done"
    /\ Return(t)
    /\ UNCHANGED <<bookmarks, idEnum, recentFolderId, mtx, log>>

\* remove_Bookmarks, lines 381-391.
remove_lock(t, id) ==
    /\ pc[t] = "idle"
    /\ CanLock(t)
    /\ mtx' = Locked(t)
    /\ pc' = [pc EXCEPT ![t] = "remove_body"]
    /\ loc' = [loc EXCEPT ![t] = [op |-> "remove", id |-> id, ptrs |-> {}]]
    /\ UNCHANGED <<bookmarks, idEnum, recentFolderId, dangling, log>>

remove_body(t) ==
    /\ pc[t] = "remove_body"
    /\ bookmarks' = Removed(bookmarks, loc[t].id)
    /\ dangling' = Freeing(DOMAIN bookmarks \ DOMAIN Removed(bookmarks, loc[t].id))
    /\ pc' = [pc EXCEPT ![t] = "remove_unlock"]
    /\ UNCHANGED <<idEnum, recentFolderId, mtx, loc, log>>

remove_unlock(t) ==
    /\ pc[t] = "remove_unlock"
    /\ mtx' = Unlocked
    /\ Return(t)
    /\ UNCHANGED <<bookmarks, idEnum, recentFolderId, log>>

\* clear_Bookmarks, lines 126-132.
clear_lock(t) ==
    /\ pc[t] = "idle"
    /\ CanLock(t)
    /\ mtx' = Locked(t)
    /\ pc' = [pc EXCEPT ![t] = "clear_body"]
    /\ loc' = [loc EXCEPT ![t] = [op |-> "clear", ptrs |-> {}]]
    /\ UNCHANGED <<bookmarks, idEnum, recentFolderId, dangling, log>>

clear_body(t) ==
    /\ pc[t] = "clear_body"
    /\ bookmarks' = EmptyHash
    /\ idEnum' = 0
    /\ dangling' = Freeing(DOMAIN bookmarks)
    /\ log' = [log EXCEPT !.cleared = TRUE]
    /\ pc' = [pc EXCEPT ![t] = "clear_unlock"]
    /\ UNCHANGED <<recentFolderId, mtx, loc>>

clear_unlock(t) ==
    /\ pc[t] = "clear_unlock"
    /\ mtx' = Unlocked
    /\ Return(t)
    /\ UNCHANGED <<bookmarks, idEnum, recentFolderId, log>>

\* list_Bookmarks, lines 494-505, with no filter, and the caller's loop over
\* the array it returns.
list_lock(t) ==
    /\ pc[t] = "idle"
    /\ CanLock(t)
    /\ mtx' = Locked(t)
    /\ pc' = [pc EXCEPT ![t] = "list_collect"]
    /\ loc' = [loc EXCEPT ![t] = [op |-> "list", ptrs |-> {}]]
    /\ UNCHANGED <<bookmarks, idEnum, recentFolderId, dangling, log>>

list_collect(t) ==
    /\ pc[t] = "list_collect"
    /\ loc' = [loc EXCEPT ![t] = [op |-> "list", ptrs |-> list_Bookmarks(bookmarks, {bm \in Records(bookmarks) : TRUE})]]
    /\ pc' = [pc EXCEPT ![t] = "list_unlock"]
    /\ UNCHANGED <<bookmarks, idEnum, recentFolderId, mtx, dangling, log>>

list_unlock(t) ==
    /\ pc[t] = "list_unlock"
    /\ mtx' = Unlocked
    /\ pc' = [pc EXCEPT ![t] = "list_sort"]
    /\ UNCHANGED <<bookmarks, idEnum, recentFolderId, loc, dangling, log>>

\* sort_Array: the comparator reads the records the array points to.
list_sort(t) ==
    /\ pc[t] = "list_sort"
    /\ pc' = [pc EXCEPT ![t] = "list_use"]
    /\ UNCHANGED <<bookmarks, idEnum, recentFolderId, mtx, loc, dangling, log>>

\* the caller reads the records of the array, then drops it.
list_use(t) ==
    /\ pc[t] = "list_use"
    /\ Return(t)
    /\ UNCHANGED <<bookmarks, idEnum, recentFolderId, mtx, log>>

\* setRecentFolder_Bookmarks, lines 412-418.
setRecentFolder_call(t, folderId) ==
    /\ pc[t] = "idle"
    /\ pc' = [pc EXCEPT ![t] = "setRecent_get"]
    /\ loc' = [loc EXCEPT ![t] = [op |-> "setRecentFolder", id |-> folderId, ptrs |-> {}]]
    /\ UNCHANGED <<bookmarks, idEnum, recentFolderId, mtx, dangling, log>>

setRecentFolder_get(t) ==
    /\ pc[t] = "setRecent_get"
    /\ loc' = [loc EXCEPT ![t].ptrs = {loc[t].id} \cap DOMAIN bookmarks]
    /\ pc' = [pc EXCEPT ![t] = "setRecent_set"]
    /\ UNCHANGED <<bookmarks, idEnum, recentFolderId, mtx, dangling, log>>

setRecentFolder_set(t) ==
    /\ pc[t] = "setRecent_set"
    /\ IF loc[t].ptrs = {}
       THEN recentFolderId' = 0
       ELSE \E isFolder \in ReadVia(t, loc[t].id,
                                     isFolder_Bookmark(get_Bookmarks(bookmarks, loc[t].id)),
                                     BOOLEAN) :
                recentFolderId' = IF isFolder THEN loc[t].id ELSE 0
    /\ Return(t)
    /\ UNCHANGED <<bookmarks, idEnum, mtx, log>>

\* count_Bookmarks, lines 509-515.
count_call(t) ==
    /\ pc[t] = "idle"
    /\ pc' = [pc EXCEPT ![t] = "count_scan"]
    /\ loc' = [loc EXCEPT ![t] = [op |-> "count", ptrs |-> {}]]
    /\ UNCHANGED <<bookmarks, idEnum, recentFolderId, mtx, dangling, log>>

count_scan(t) ==
    /\ pc[t] = "count_scan"
    /\ pc' = [pc EXCEPT ![t] = "count_done"]
    /\ loc' = [loc EXCEPT ![t] =
                  [op |-> "count", ptrs |-> {},
                   ret |-> Cardinality(list_Bookmarks(bookmarks, {bm \in Records(bookmarks) : ~isFolder_Bookmark(bm)}))]]
    /\ UNCHANGED <<bookmarks, idEnum, recentFolderId, mtx, dangling, log>>

count_done(t) ==
    /\ pc[t] = "count_done"
    /\ Return(t)
    /\ UNCHANGED <<bookmarks, idEnum, recentFolderId, mtx, log>>

\* The steps that read or write the hash, the allocator or the recent folder.
AccessPcs ==
    {"add_body", "remove_body", "clear_body", "list_collect",
     "setRecent_get", "setRecent_set", "count_scan"}

InitThreads ==
    /\ bookmarks = EmptyHash
    /\ idEnum = 0
    /\ recentFolderId = 0
    /\ addBookmarksToBottom = TRUE
    /\ now = 0
    /\ call = NoCall
    /\ ThreadInit
    /\ SyncInit

NextThreads ==
    \E t \in Threads :
        \/ \E a \in ThreadAddArgs : add_lock(t, a) /\ UNCHANGED <<callerVars, syncVars>>
        \/ add_body(t) /\ UNCHANGED <<callerVars, syncVars>>
        \/ add_unlock(t) /\ UNCHANGED <<callerVars, syncVars>>
        \/ add_return(t) /\ UNCHANGED <<callerVars, syncVars>>
        \/ add_done(t) /\ UNCHANGED <<callerVars, syncVars>>
        \/ \E id \in 1..MaxId : remove_lock(t, id) /\ UNCHANGED <<callerVars, syncVars>>
        \/ remove_body(t) /\ UNCHANGED <<callerVars, syncVars>>
        \/ remove_unlock(t) /\ UNCHANGED <<callerVars, syncVars>>
        \/ clear_lock(t) /\ UNCHANGED <<callerVars, syncVars>>
        \/ clear_body(t) /\ UNCHANGED <<callerVars, syncVars>>
        \/ clear_unlock(t) /\ UNCHANGED <<callerVars, syncVars>>
        \/ list_lock(t) /\ UNCHANGED <<callerVars, syncVars>>
        \/ list_collect(t) /\ UNCHANGED <<callerVars, syncVars>>
        \/ list_unlock(t) /\ UNCHANGED <<callerVars, syncVars>>
        \/ list_sort(t) /\ UNCHANGED <<callerVars, syncVars>>
        \/ list_use(t) /\ UNCHANGED <<callerVars, syncVars>>
        \/ \E id \in 1..MaxId : setRecentFolder_call(t, id) /\ UNCHANGED <<callerVars, syncVars>>
        \/ setRecentFolder_get(t) /\ UNCHANGED <<callerVars, syncVars>>
        \/ setRecentFolder_set(t) /\ UNCHANGED <<callerVars, syncVars>>
        \/ count_call(t) /\ UNCHANGED <<callerVars, syncVars>>
        \/ count_scan(t) /\ UNCHANGED <<callerVars, syncVars>>
        \/ count_done(t) /\ UNCHANGED <<callerVars, syncVars>>

SpecThreads == InitThreads /\ [][NextThreads]_vars

\* -------------------------------------------------------------------- sort
\* The place of a letter in the alphabet, letter case ignored; 0 for no letter.
LetterRank(c) ==
    CASE LowerChar(c) = "a" -> 1
      [] LowerChar(c) = "b" -> 2
      [] LowerChar(c) = "x" -> 3
      [] OTHER -> 0

\* iCmp: -1, 0 or 1.
iCmp(a, b) == IF a < b THEN -1 ELSE IF a > b THEN 1 ELSE 0

\* cmpStringCase_String on titles of at most one letter.
cmpStringCase_String(s, t) == iCmp(LetterRank(s), LetterRank(t))

\* The comparison of the times the other way round.
cmpTimeAscending(a, b) == iCmp(a.when, b.when)

cmpTimeDescending_Bookmark_(a, b) == iCmp(b.when, a.when)

cmpTitleAscending_Bookmark(a, b) == cmpStringCase_String(a.title, b.title)

\* The comparators list_Bookmarks is called with; "null" is the NULL argument,
\* for which list_Bookmarks takes cmpTimeDescending_Bookmark_.
Cmps == {"null", "title"}

Compare(cmp, a, b) ==
    IF cmp = "title" THEN cmpTitleAscending_Bookmark(a, b)
    ELSE cmpTimeDescending_Bookmark_(a, b)

\* The arrays that hold every element of ids once.
Arrays(ids) ==
    {q \in [1..Cardinality(ids) -> ids] : \A i, j \in DOMAIN q : q[i] = q[j] => i = j}

\* sort_Array: the arrays the sort can leave; records that compare equal can
\* end in either order.
sort_Array(bms, ids, cmp) ==
    {q \in Arrays(ids) :
        \A i, j \in DOMAIN q : i < j => Compare(cmp, bms[q[i]], bms[q[j]]) <= 0}

\* isMatchingParent_Bookmark_(context = &parentId, bm)
isMatchingParent_Bookmark_(parentId, bm) == bm.parentId = parentId

\* The loop of sort_Bookmarks writing the index without the + 1.
SortedFromZero(bms, q) ==
    [i \in DOMAIN bms |->
        IF \E k \in DOMAIN q : q[k] = i
        THEN [bms[i] EXCEPT !.order = (CHOOSE k \in DOMAIN q : q[k] = i) - 1]
        ELSE bms[i]]

\* The loop of sort_Bookmarks over the sorted array q: order = index + 1,
\* the index counted from 0.
Sorted(bms, q) ==
    [i \in DOMAIN bms |->
        IF \E k \in DOMAIN q : q[k] = i
        THEN [bms[i] EXCEPT !.order = CHOOSE k \in DOMAIN q : q[k] = i]
        ELSE bms[i]]

sort_Bookmarks(parentId, cmp) ==
    LET kids == list_Bookmarks(bookmarks,
                               {bm \in Records(bookmarks) : isMatchingParent_Bookmark_(parentId, bm)})
    IN  /\ \E q \in sort_Array(bookmarks, kids, cmp) : bookmarks' = Sorted(bookmarks, q)
        /\ call' = [op |-> "sort", parentId |-> parentId, cmp |-> cmp]
        /\ UNCHANGED <<idEnum, recentFolderId, addBookmarksToBottom, now>>

\* The bookmarks added before a sort: two titles, two times apart from the files'.
SortAddArgs == {a \in AddArgs : a.url # EmptyUrl}

\* The calls around sort_Bookmarks.
NextSort ==
    \/ \E a \in SortAddArgs : add_Bookmarks(a) /\ UNCHANGED <<threadVars, syncVars>>
    \/ \E p \in 0..MaxId, c \in Cmps : sort_Bookmarks(p, c) /\ UNCHANGED <<threadVars, syncVars>>
    \/ \E f \in Files : load_Bookmarks(f) /\ UNCHANGED <<threadVars, syncVars>>

SpecSort == Init /\ [][NextSort]_vars

\* -------------------------------------------------------------------- tags
UserIconTags == <<userIcon_BookmarkTag>>

RemoteSourceTags == <<remoteSource_BookmarkTag>>

\* The regular expression \b<pattern>\b matched in one token: the words of the
\* pattern are consecutive words of the token. A hyphen is not a word
\* character, so there is a word boundary on both sides of it.
MatchesInToken(token, pattern) ==
    \E k \in 1..(Len(token) - Len(pattern) + 1) :
        SubSeq(token, k, k + Len(pattern) - 1) = pattern

\* matchString_RegExp of \b<pattern>\b in a tag string.
MatchesWord(tags, pattern) == \E n \in DOMAIN tags : MatchesInToken(tags[n], pattern)

\* hasTag_Bookmark, for a record that is not NULL.
hasTag_Bookmark(bm, tag) == MatchesWord(bm.tags, tag)

\* ------------------------------------------------------------------- icons
\* updateBookmarkIcon_Bookmarks without the two tag tests.
IconUpdatedAnyTag(bms, id, icon) ==
    IF id # 0 /\ id \in DOMAIN bms /\ icon # bms[id].icon
    THEN [bms EXCEPT ![id].icon = icon]
    ELSE bms

\* The hash after updateBookmarkIcon_Bookmarks, id being what findUrl_Bookmarks
\* returned.
IconUpdated(bms, id, icon) ==
    IF /\ id # 0
       /\ id \in DOMAIN bms
       /\ ~hasTag_Bookmark(bms[id], remote_BookmarkTag)
       /\ ~hasTag_Bookmark(bms[id], userIcon_BookmarkTag)
       /\ icon # bms[id].icon
    THEN [bms EXCEPT ![id].icon = icon]
    ELSE bms

updateBookmarkIcon_Bookmarks(url, icon) ==
    \E id \in findUrl_Bookmarks(bookmarks, url) :
        /\ bookmarks' = IconUpdated(bookmarks, id, icon)
        /\ call' = [op |-> "updateIcon", url |-> url, icon |-> icon, found |-> id,
                    ret |-> IconUpdated(bookmarks, id, icon) # bookmarks]
        /\ UNCHANGED <<idEnum, recentFolderId, addBookmarksToBottom, now>>

\* setRecentFolder_Bookmarks accepting every bookmark that exists.
RecentFolderAnyBookmark(bms, folderId) ==
    IF get_Bookmarks(bms, folderId) # NoBm THEN folderId ELSE 0

\* The value setRecentFolder_Bookmarks stores.
RecentFolderAfter(bms, folderId) ==
    LET bm == get_Bookmarks(bms, folderId)
    IN  IF bm # NoBm /\ isFolder_Bookmark(bm) THEN folderId ELSE 0

setRecentFolder_Bookmarks(folderId) ==
    /\ recentFolderId' = RecentFolderAfter(bookmarks, folderId)
    /\ call' = [op |-> "setRecentFolder", id |-> folderId]
    /\ UNCHANGED <<bookmarks, idEnum, addBookmarksToBottom, now>>

recentFolder_Bookmarks == recentFolderId

\* urlRoot_String: the scheme and the host of a URL.
urlRoot_String(u) == [scheme |-> u.scheme, host |-> u.host]

\* equalRangeCase_Rangecc on two roots.
equalRangeCase_Rangecc(r, q) == r.scheme = q.scheme /\ LowerChar(r.host) = LowerChar(q.host)

\* size_String of a URL: "gemini://", a host of one letter, ":" and four
\* digits when there is a port, and the path.
size_String(u) ==
    IF u = EmptyUrl THEN 0
    ELSE 9 + 1 + (IF u.port = 0 THEN 0 ELSE 5) + Len(u.path)

\* siteIcon_Bookmarks without the test bm->icon.
siteIcon_NoIconTest(bms, url) ==
    IF url = EmptyUrl THEN {0}
    ELSE LET cand == {i \in DOMAIN bms :
                         /\ MatchesWord(bms[i].tags, userIcon_BookmarkTag)
                         /\ equalRangeCase_Rangecc(urlRoot_String(url), urlRoot_String(bms[i].url))}
         IN  IF cand = {} THEN {0}
             ELSE {bms[i].icon : i \in {c \in cand : \A j \in cand :
                                           size_String(bms[c].url) <= size_String(bms[j].url)}}

\* siteIcon_Bookmarks: the pass over the hash keeps the first record it meets
\* among those of the least URL size, and the hash can be walked in any order,
\* so this is the set of the values the call can return.
siteIcon_Bookmarks(bms, url) ==
    IF url = EmptyUrl THEN {0}
    ELSE LET cand == {i \in DOMAIN bms :
                         /\ bms[i].icon # 0
                         /\ MatchesWord(bms[i].tags, userIcon_BookmarkTag)
                         /\ equalRangeCase_Rangecc(urlRoot_String(url), urlRoot_String(bms[i].url))}
         IN  IF cand = {} THEN {0}
             ELSE {bms[i].icon : i \in {c \in cand : \A j \in cand :
                                           size_String(bms[c].url) <= size_String(bms[j].url)}}

UrlHostUpper == Url("A", 0, <<"/">>)               \* gemini://A/
UrlLowerXY   == Url("a", 0, <<"/", "x", "y">>)     \* gemini://a/x/y

SiteUrls == {UrlLowerXY, UrlHostUpper, EmptyUrl}

\* A table block with its tags and icon.
TaggedBlock(id, url, tags, icon, created, parent) ==
    [Block(id, url, created, parent, 1) EXCEPT !.tags = tags, !.icon = icon]

IconBlocks ==
    { TaggedBlock(1, UrlRoot,      UserIconTags,     65, 0, 0),
      TaggedBlock(2, UrlLowerX,    UserIconTags,     66, 0, 0),
      TaggedBlock(1, UrlRoot,      UserIconTags,     0,  0, 0),    \* no icon
      TaggedBlock(3, UrlUpperX,    UserIconTags,     67, 1, 1),    \* as long as gemini://a/x
      TaggedBlock(3, UrlHostUpper, UserIconTags,     68, 0, 1),
      TaggedBlock(2, UrlLowerX,    RemoteSourceTags, 65, 0, 1),
      TaggedBlock(1, EmptyUrl,     NoTags,           0,  0, 0) }   \* a folder

IconFiles == [recentfolder : {{}}, blocks : SeqsUpTo(IconBlocks, MaxFileLen)]

IconArgs == {65, 66}

UpdateUrls == {UrlRootRaw, UrlUpperX}

\* The filters list_Bookmarks is called with: "null" is the NULL argument,
\* "inside" is filterInsideFolder_Bookmark with a folder as its context.
Filters == {"null", "inside"}

ListContexts == {1}

\* The records for which filter(context, bm) is true, or all when filter is NULL.
Accepted(bms, filter, context) ==
    IF filter = "null" THEN Records(bms)
    ELSE {bm \in Records(bms) : filterInsideFolder_Bookmark(context, bm)}

\* One call of list_Bookmarks by the single caller, the array it returns kept
\* in call.
list_call(cmp, filter, context) ==
    /\ \E q \in sort_Array(bookmarks,
                           list_Bookmarks(bookmarks, Accepted(bookmarks, filter, context)), cmp) :
          call' = [op |-> "list", cmp |-> cmp, filter |-> filter, context |-> context,
                   ret |-> q]
    /\ UNCHANGED <<bookmarks, idEnum, recentFolderId, addBookmarksToBottom, now>>

\* The calls that read tags and icons.
NextIcons ==
    \/ \E f \in IconFiles : load_Bookmarks(f) /\ UNCHANGED <<threadVars, syncVars>>
    \/ \E a \in AddArgs : add_Bookmarks(a) /\ UNCHANGED <<threadVars, syncVars>>
    \/ \E u \in UpdateUrls, ic \in IconArgs :
          updateBookmarkIcon_Bookmarks(u, ic) /\ UNCHANGED <<threadVars, syncVars>>
    \/ \E id \in QueryIds : setRecentFolder_Bookmarks(id) /\ UNCHANGED <<threadVars, syncVars>>
    \/ \E c \in Cmps, f \in Filters, x \in ListContexts :
          list_call(c, f, x) /\ UNCHANGED <<threadVars, syncVars>>

SpecIcons == Init /\ [][NextIcons]_vars

\* ------------------------------------------------------- save and sync
\* seconds_Time printed with "%.0f": the whole number of seconds nearest to
\* the time, the even one when two are as near.
SavedSeconds(when) ==
    LET q == when \div TicksPerSecond
        r == when % TicksPerSecond
    IN  IF 2 * r < TicksPerSecond THEN q
        ELSE IF 2 * r > TicksPerSecond THEN q + 1
        ELSE IF q % 2 = 0 THEN q ELSE q + 1

\* The block save_Bookmarks writes for one record: parent and order are
\* written only when they are not zero.
SavedBlock(id, bm) ==
    [id |-> id, url |-> bm.url, title |-> bm.title, tags |-> bm.tags, icon |-> bm.icon,
     created |-> SavedSeconds(bm.when), parent |-> bm.parentId, order |-> bm.order,
     keys |-> {k \in {"parent"} : bm.parentId # 0} \cup {k \in {"order"} : bm.order # 0}]

\* save_Bookmarks writing a block for every record.
SavedIdsAll(bms) == DOMAIN bms

\* The records save_Bookmarks writes: those whose tags the pattern \bremote\b
\* does not match.
SavedIds(bms) == {i \in DOMAIN bms : ~MatchesWord(bms[i].tags, <<"remote">>)}

\* save_Bookmarks: the recentfolder key, then the blocks in the order of the
\* hash, which is any order.
save_Bookmarks ==
    /\ \E q \in Arrays(SavedIds(bookmarks)) :
          disk' = [recentfolder |-> {recentFolderId},
                   blocks |-> [k \in DOMAIN q |-> SavedBlock(q[k], bookmarks[q[k]])]]
    /\ call' = [op |-> "save"]
    /\ UNCHANGED <<bookmarks, idEnum, recentFolderId, addBookmarksToBottom, now,
                   remoteRequests, remoteSourceTag, commands, uiVars>>

\* load_Bookmarks of the file save_Bookmarks has just written.
loadSaved_Bookmarks ==
    LET st == LoadBlocks([bms |-> EmptyHash, enum |-> 0], disk.blocks)
    IN  /\ call.op = "save"
        /\ bookmarks' = st.bms
        /\ idEnum' = st.enum
        /\ recentFolderId' = IF disk.recentfolder = {} THEN recentFolderId
                              ELSE CHOOSE v \in disk.recentfolder : TRUE
        /\ call' = [op |-> "load"]
        /\ UNCHANGED <<addBookmarksToBottom, now, remoteRequests, disk, remoteSourceTag, commands, uiVars>>

\* isRemoteSource_Bookmark_
isRemoteSource_Bookmark_(bm) == hasTag_Bookmark(bm, remoteSourceTag)

\* new_GmRequest gives every call of fetchRemote_Bookmarks requests of its
\* own: a request is its user data (bmId), its URL and the caller that made it.
MainThread == "main"

\* fetchRemote_Bookmarks between lock_Mutex and unlock_Mutex: the records
\* tagged remote are removed, and one request is pushed for every record
\* tagged as a remote source.
FetchedLocked(bms, reqs, by) ==
    LET purge == list_Bookmarks(bms, {bm \in Records(bms) :
                                        hasTag_Bookmark(bm, remote_BookmarkTag)})
        rest  == RemoveKeys(bms, purge)
        new   == {[bmId |-> i, url |-> rest[i].url, by |-> by] :
                    i \in list_Bookmarks(rest, {bm \in Records(rest) :
                                                  isRemoteSource_Bookmark_(bm)})}
    IN  [bms |-> rest, reqs |-> reqs \cup new, submitted |-> new,
         posted |-> IF purge # {} THEN 1 ELSE 0]

\* fetchRemote_Bookmarks without the test of remoteRequests.
FetchedAlways(bms, reqs, by) == FetchedLocked(bms, reqs, by)

\* fetchRemote_Bookmarks posting "bookmarks.changed" after every purge.
FetchedPosting(bms, reqs, by) ==
    IF reqs # {} THEN [bms |-> bms, reqs |-> reqs, submitted |-> {}, posted |-> 0]
    ELSE [FetchedLocked(bms, reqs, by) EXCEPT !.posted = 1]

\* What fetchRemote_Bookmarks leaves: nothing changes while a request is not
\* finished.
Fetched(bms, reqs, by) ==
    IF reqs # {} THEN [bms |-> bms, reqs |-> reqs, submitted |-> {}, posted |-> 0]
    ELSE FetchedLocked(bms, reqs, by)

\* fetchRemote_Bookmarks; posted counts the "bookmarks.changed" commands.
fetchRemote_Bookmarks ==
    LET f == Fetched(bookmarks, remoteRequests, MainThread)
    IN  /\ bookmarks' = f.bms
        /\ remoteRequests' = f.reqs
        /\ call' = [op |-> "fetchRemote", submitted |-> f.submitted, posted |-> f.posted]
        /\ UNCHANGED <<idEnum, recentFolderId, addBookmarksToBottom, now, disk,
                       remoteSourceTag, commands, uiVars>>

\* The icon requestFinished_Bookmarks gives the bookmarks it adds (0x2913).
RemoteIcon == 10515

\* The loop of requestFinished_Bookmarks over the link lines of the body, the
\* URLs already absolute: the stores it can end with. (findUrl_Bookmarks
\* answering 0 reads as no bookmark found.)
RECURSIVE Merged(_, _, _, _, _)
Merged(st, links, bmId, toBottom, time) ==
    IF links = <<>> THEN {st}
    ELSE LET l      == Head(links)
             absUrl == canonicalUrl_String(l.url)
             a      == [url |-> absUrl,
                        title |-> IF l.title = "" THEN l.url.host ELSE l.title,
                        tags |-> RemoteTags, icon |-> RemoteIcon]
             added  == [bms  |-> insertId_Bookmarks_(st.bms,
                                    [NewBookmark(st.bms, a, toBottom, time)
                                        EXCEPT !.parentId = bmId],
                                    st.enum + 1),
                        enum |-> st.enum + 1]
         IN  UNION { Merged(IF r = 0 THEN added ELSE st, Tail(links), bmId, toBottom, time) :
                       r \in findUrl_Bookmarks(st.bms, absUrl) }

\* The links of a response body.
Links ==
    { <<>>,
      << [url |-> UrlRootRaw, title |-> ""] >>,
      << [url |-> UrlUpperX, title |-> "T"] >>,
      << [url |-> UrlLowerX, title |-> "T"], [url |-> UrlRootRaw, title |-> "T"] >> }

\* A finished request's status and the links of its body.
Responses == [ok : BOOLEAN, links : Links]

\* requestFinished_Bookmarks parsing the body whatever the status.
FinishedAnyStatus(st, resp, bmId, toBottom, time) ==
    Merged(st, resp.links, bmId, toBottom, time)

\* The stores requestFinished_Bookmarks can leave: the body is parsed only
\* when isSuccess_GmStatusCode.
Finished(st, resp, bmId, toBottom, time) ==
    IF resp.ok THEN Merged(st, resp.links, bmId, toBottom, time) ELSE {st}

\* requestFinished_Bookmarks posting "bookmarks.changed" every time.
DrainPostedAlways(reqs) == 1

\* requestFinished_Bookmarks never posting "bookmarks.changed".
DrainPostedNever(reqs) == 0

\* The number of "bookmarks.changed" commands requestFinished_Bookmarks posts,
\* reqs being the requests left after the finished one is removed.
DrainPosted(reqs) == IF reqs = {} THEN 1 ELSE 0

\* requestFinished_Bookmarks for a request of remoteRequests.
RequestFinishedCall(req, resp) ==
    /\ req \in remoteRequests
    /\ idEnum + Len(resp.links) <= MaxId + 1
    /\ remoteRequests' = remoteRequests \ {req}
    /\ \E st \in Finished([bms |-> bookmarks, enum |-> idEnum], resp, req.bmId,
                           addBookmarksToBottom, now) :
          /\ bookmarks' = st.bms
          /\ idEnum' = st.enum
    /\ call' = [op |-> "requestFinished", ok |-> resp.ok,
                posted |-> DrainPosted(remoteRequests \ {req})]
    /\ UNCHANGED <<recentFolderId, addBookmarksToBottom, now, disk, remoteSourceTag, uiVars>>

\* The request finishes and its command is handled, in one step.
requestFinished_Bookmarks(req, resp) == RequestFinishedCall(req, resp) /\ UNCHANGED commands

\* Bookmarks added by the user: a remote source, a remote bookmark and one
\* with the tag "remote-copy" among them.
SyncAddArgs ==
    { [url |-> UrlRootRaw, title |-> "c", tags |-> << <<"remote", "copy">> >>, icon |-> 65],
      [url |-> UrlRoot,    title |-> "b", tags |-> RemoteTags,          icon |-> 0],
      [url |-> UrlLowerX,  title |-> "s", tags |-> <<remoteSourceTag>>, icon |-> 65] }

SyncBlocks ==
    { Block(1, EmptyUrl, 0, 0, 1),                               \* a folder
      Block(2, UrlRoot,  1, 1, 0),                               \* inside 1, order = 0
      TaggedBlock(1, UrlLowerX, <<remoteSourceTag>>, 65, 0, 0) } \* a remote source

\* The files the application starts from: at most two blocks.
SyncFiles == [recentfolder : {{}, {1}}, blocks : SeqsUpTo(SyncBlocks, 2)]

NextSync ==
    \/ \E f \in SyncFiles : load_Bookmarks(f) /\ UNCHANGED <<threadVars, syncVars>>
    \/ \E a \in SyncAddArgs : add_Bookmarks(a) /\ UNCHANGED <<threadVars, syncVars>>
    \/ Tick /\ UNCHANGED <<threadVars, syncVars>>
    \/ save_Bookmarks /\ UNCHANGED threadVars
    \/ loadSaved_Bookmarks /\ UNCHANGED threadVars
    \/ fetchRemote_Bookmarks /\ UNCHANGED threadVars
    \/ \E req \in remoteRequests, resp \in Responses :
          requestFinished_Bookmarks(req, resp) /\ UNCHANGED threadVars

\* The header that spells the tag is not among the sources: both spellings
\* are followed.
InitSync ==
    /\ bookmarks = EmptyHash
    /\ idEnum = 0
    /\ recentFolderId = 0
    /\ addBookmarksToBottom \in BOOLEAN
    /\ now = 0
    /\ call = NoCall
    /\ ThreadInit
    /\ remoteRequests = {}
    /\ disk = NoFile
    /\ commands = {}
    /\ IndicatorsInit
    /\ remoteSourceTag \in RemoteSourceSpellings

SpecSync == InitSync /\ [][NextSync]_vars

\* deinit_Bookmarks cancelling nothing.
CancelledNone(reqs) == {}

\* The requests deinit_Bookmarks cancels, frees the user data of and releases:
\* every element of remoteRequests.
Cancelled(reqs) == reqs

\* deinit_Bookmarks: the requests are cancelled, then clear_Bookmarks. Nothing
\* is called on the store afterwards.
deinit_Bookmarks ==
    /\ call.op # "deinit"
    /\ remoteRequests' = {}
    /\ bookmarks' = EmptyHash
    /\ idEnum' = 0
    /\ call' = [op |-> "deinit", cancelled |-> Cancelled(remoteRequests)]
    /\ UNCHANGED <<recentFolderId, addBookmarksToBottom, now, disk, remoteSourceTag, commands, uiVars>>

NextShutdown ==
    \/ call.op # "deinit" /\ NextSync
    \/ deinit_Bookmarks /\ UNCHANGED threadVars

SpecShutdown == InitSync /\ [][NextShutdown]_vars

\* ------------------------------------------------------- sync cycles end
\* A request that was submitted finishes and is handled.
Completion ==
    \E req \in remoteRequests, resp \in Responses :
        requestFinished_Bookmarks(req, resp) /\ UNCHANGED threadVars

\* The user adds and removes remote sources and asks for a sync at any time.
NextDrain ==
    \/ \E a \in SyncAddArgs : add_Bookmarks(a) /\ UNCHANGED <<threadVars, syncVars>>
    \/ \E id \in DOMAIN bookmarks : remove_Bookmarks(id) /\ UNCHANGED <<threadVars, syncVars>>
    \/ fetchRemote_Bookmarks /\ UNCHANGED threadVars
    \/ Completion

\* Every request that is outstanding finishes and is handled at some time.
SpecDrain == InitSync /\ [][NextDrain]_vars /\ WF_vars(Completion)

\* -------------------------------------------------------- the recent folder
\* The bookmarks the user adds: a folder and a remote source.
RecentAddArgs ==
    { [url |-> EmptyUrl,  title |-> "A", tags |-> NoTags,              icon |-> 0],
      [url |-> UrlLowerX, title |-> "s", tags |-> <<remoteSourceTag>>, icon |-> 65] }

\* The calls that write recentFolderId or take bookmarks out of the store,
\* with the sync cycles.
NextRecent ==
    \/ \E f \in SyncFiles : load_Bookmarks(f) /\ UNCHANGED <<threadVars, syncVars>>
    \/ \E a \in RecentAddArgs : add_Bookmarks(a) /\ UNCHANGED <<threadVars, syncVars>>
    \/ \E id \in QueryIds : setRecentFolder_Bookmarks(id) /\ UNCHANGED <<threadVars, syncVars>>
    \/ \E id \in DOMAIN bookmarks : remove_Bookmarks(id) /\ UNCHANGED <<threadVars, syncVars>>
    \/ clear_Bookmarks /\ UNCHANGED <<threadVars, syncVars>>
    \/ fetchRemote_Bookmarks /\ UNCHANGED threadVars
    \/ \E req \in remoteRequests, resp \in Responses :
          requestFinished_Bookmarks(req, resp) /\ UNCHANGED threadVars

SpecRecent == InitSync /\ [][NextRecent]_vars

\* ------------------------------------------------- commands and teardown
\* remoteRequestFinished_Bookmarks_, connected to the signal finished of every
\* request fetchRemote_Bookmarks submits: the command that names the request
\* is posted, once for a request.
remoteRequestFinished_Bookmarks_(req, resp) ==
    /\ req \in remoteRequests
    /\ \A c \in commands : c.req # req
    /\ commands' = commands \cup {[req |-> req, resp |-> resp]}
    /\ UNCHANGED <<bookmarks, idEnum, recentFolderId, addBookmarksToBottom, now, call,
                   remoteRequests, disk, remoteSourceTag, uiVars>>

\* A posted command is handled: requestFinished_Bookmarks with the request it
\* names. iAssert(found) fails when the request is not in remoteRequests; what
\* follows reads a request that was released, and the store is left as it is.
handleFinished(c) ==
    /\ c \in commands
    /\ commands' = commands \ {c}
    /\ IF c.req \in remoteRequests
       THEN RequestFinishedCall(c.req, c.resp)
       ELSE /\ call' = [op |-> "requestFinished", found |-> FALSE]
            /\ UNCHANGED <<bookmarks, idEnum, recentFolderId, addBookmarksToBottom, now,
                           remoteRequests, disk, remoteSourceTag, uiVars>>

\* The remote sources the user adds.
TeardownAddArgs == {a \in SyncAddArgs : a.title = "s"}

\* Dispatch, the signals, the handling of the commands and deinit_Bookmarks;
\* after deinit_Bookmarks only the commands already posted are handled.
NextTeardown ==
    \/ \E a \in TeardownAddArgs :
          call.op # "deinit" /\ add_Bookmarks(a) /\ UNCHANGED <<threadVars, syncVars>>
    \/ call.op # "deinit" /\ fetchRemote_Bookmarks /\ UNCHANGED threadVars
    \/ \E req \in remoteRequests, resp \in Responses :
          remoteRequestFinished_Bookmarks_(req, resp) /\ UNCHANGED threadVars
    \/ \E c \in commands : handleFinished(c) /\ UNCHANGED threadVars
    \/ deinit_Bookmarks /\ UNCHANGED threadVars

SpecTeardown == InitSync /\ [][NextTeardown]_vars

\* ------------------------------------------------------------- sync cycles
\* From the empty store: the user's calls and the sync cycles, a request
\* finishing at any time after it was submitted.
NextCycle ==
    \/ \E a \in SyncAddArgs : add_Bookmarks(a) /\ UNCHANGED <<threadVars, syncVars>>
    \/ \E id \in DOMAIN bookmarks : remove_Bookmarks(id) /\ UNCHANGED <<threadVars, syncVars>>
    \/ \E id \in DOMAIN bookmarks, n \in NewOrders :
          reorder_Bookmarks(id, n) /\ UNCHANGED <<threadVars, syncVars>>
    \/ \E p \in 0..MaxId, c \in Cmps : sort_Bookmarks(p, c) /\ UNCHANGED <<threadVars, syncVars>>
    \/ fetchRemote_Bookmarks /\ UNCHANGED threadVars
    \/ \E req \in remoteRequests, resp \in Responses :
          requestFinished_Bookmarks(req, resp) /\ UNCHANGED threadVars

SpecCycle == InitSync /\ [][NextCycle]_vars

\* ------------------------------------------------------ sync and threads
\* fetchRemote_Bookmarks, line 685: remoteRequests is read before the lock is
\* taken. The function returns when the array is not empty.
fetch_test(t) ==
    /\ pc[t] = "idle"
    /\ IF remoteRequests # {}
       THEN UNCHANGED <<pc, loc>>
       ELSE /\ pc' = [pc EXCEPT ![t] = "fetch_lock"]
            /\ loc' = [loc EXCEPT ![t] = [op |-> "fetchRemote", ptrs |-> {}]]
    /\ UNCHANGED <<bookmarks, idEnum, recentFolderId, mtx, dangling, log, remoteRequests>>

\* line 688
fetch_lock(t) ==
    /\ pc[t] = "fetch_lock"
    /\ CanLock(t)
    /\ mtx' = Locked(t)
    /\ pc' = [pc EXCEPT ![t] = "fetch_body"]
    /\ UNCHANGED <<bookmarks, idEnum, recentFolderId, loc, dangling, log, remoteRequests>>

\* lines 689-713
fetch_body(t) ==
    LET f == FetchedLocked(bookmarks, remoteRequests, t)
    IN  /\ pc[t] = "fetch_body"
        /\ bookmarks' = f.bms
        /\ remoteRequests' = f.reqs
        /\ dangling' = Freeing(DOMAIN bookmarks \ DOMAIN f.bms)
        /\ pc' = [pc EXCEPT ![t] = "fetch_unlock"]
        /\ UNCHANGED <<idEnum, recentFolderId, mtx, loc, log>>

\* line 714
fetch_unlock(t) ==
    /\ pc[t] = "fetch_unlock"
    /\ mtx' = Unlocked
    /\ Return(t)
    /\ UNCHANGED <<bookmarks, idEnum, recentFolderId, log, remoteRequests>>

\* The bookmarks the threads add: a remote source and a remote bookmark.
FetchAddArgs ==
    { [url |-> UrlLowerX, title |-> "s", tags |-> <<remoteSourceTag>>, icon |-> 65],
      [url |-> UrlRoot,   title |-> "b", tags |-> RemoteTags,          icon |-> 0] }

InitFetchThreads ==
    /\ bookmarks = EmptyHash
    /\ idEnum = 0
    /\ recentFolderId = 0
    /\ addBookmarksToBottom = TRUE
    /\ now = 0
    /\ call = NoCall
    /\ ThreadInit
    /\ remoteRequests = {}
    /\ disk = NoFile
    /\ commands = {}
    /\ IndicatorsInit
    /\ remoteSourceTag \in RemoteSourceSpellings

NextFetchThreads ==
    \E t \in Threads :
        \/ \E a \in FetchAddArgs : add_lock(t, a) /\ UNCHANGED <<callerVars, syncVars>>
        \/ add_body(t) /\ UNCHANGED <<callerVars, syncVars>>
        \/ add_unlock(t) /\ UNCHANGED <<callerVars, syncVars>>
        \/ add_return(t) /\ UNCHANGED <<callerVars, syncVars>>
        \/ add_done(t) /\ UNCHANGED <<callerVars, syncVars>>
        \/ fetch_test(t) /\ UNCHANGED <<callerVars, disk, remoteSourceTag, commands, uiVars>>
        \/ fetch_lock(t) /\ UNCHANGED <<callerVars, disk, remoteSourceTag, commands, uiVars>>
        \/ fetch_body(t) /\ UNCHANGED <<callerVars, disk, remoteSourceTag, commands, uiVars>>
        \/ fetch_unlock(t) /\ UNCHANGED <<callerVars, disk, remoteSourceTag, commands, uiVars>>

SpecFetchThreads == InitFetchThreads /\ [][NextFetchThreads]_vars

\* ------------------------------------------------- completions and threads
\* requestFinished_Bookmarks run by a thread, one action per step between the
\* points where another thread can interleave. Lines 630-638: the request is
\* taken out of remoteRequests; the body is parsed when the status is a success.
rf_take(t, req, resp) ==
    /\ pc[t] = "idle"
    /\ req \in remoteRequests
    /\ remoteRequests' = remoteRequests \ {req}
    /\ loc' = [loc EXCEPT ![t] = [op |-> "requestFinished", bmId |-> req.bmId,
                                  links |-> IF resp.ok THEN resp.links ELSE <<>>,
                                  key |-> 0, ptrs |-> {}]]
    /\ pc' = [pc EXCEPT ![t] = "rf_find"]
    /\ UNCHANGED <<bookmarks, idEnum, recentFolderId, mtx, dangling, log>>

\* Line 659: findUrl_Bookmarks for the next link, list_Bookmarks holding the
\* mutex from its lock to its unlock; after the last link, line 677.
rf_find(t) ==
    /\ pc[t] = "rf_find"
    /\ IF loc[t].links = <<>>
       THEN pc' = [pc EXCEPT ![t] = "rf_post"] /\ UNCHANGED loc
       ELSE /\ CanLock(t)
            /\ \E r \in findUrl_Bookmarks(bookmarks, canonicalUrl_String(Head(loc[t].links).url)) :
                  IF r = 0
                  THEN pc' = [pc EXCEPT ![t] = "rf_add"] /\ UNCHANGED loc
                  ELSE /\ loc' = [loc EXCEPT ![t].links = Tail(@)]
                       /\ UNCHANGED pc
    /\ UNCHANGED <<bookmarks, idEnum, recentFolderId, mtx, dangling, log, remoteRequests>>

\* Line 663: add_Bookmarks from its lock to its unlock.
rf_add(t) ==
    LET l == Head(loc[t].links)
        a == [url |-> canonicalUrl_String(l.url),
              title |-> IF l.title = "" THEN l.url.host ELSE l.title,
              tags |-> RemoteTags, icon |-> RemoteIcon]
    IN  /\ pc[t] = "rf_add"
        /\ CanLock(t)
        /\ idEnum < MaxAlloc
        /\ idEnum' = idEnum + 1
        /\ bookmarks' = insertId_Bookmarks_(bookmarks,
                            NewBookmark(bookmarks, a, addBookmarksToBottom, now), idEnum + 1)
        /\ loc' = [loc EXCEPT ![t].key = idEnum + 1, ![t].ptrs = {idEnum + 1}]
        /\ log' = [log EXCEPT !.ever = @ \cup {idEnum + 1}]
        /\ pc' = [pc EXCEPT ![t] = "rf_get"]
        /\ UNCHANGED <<recentFolderId, mtx, dangling, remoteRequests>>

\* Lines 663-664: add_Bookmarks returns id_Bookmark(bm), read after its
\* unlock, and get_Bookmarks looks that id up, without the mutex.
rf_get(t) ==
    /\ pc[t] = "rf_get"
    /\ \E bmId \in ReadVia(t, loc[t].key, loc[t].key, 0..MaxAlloc) :
          loc' = [loc EXCEPT ![t].key = bmId, ![t].ptrs = {bmId} \cap DOMAIN bookmarks]
    /\ dangling' = [dangling EXCEPT ![t] = {}]
    /\ pc' = [pc EXCEPT ![t] = "rf_parent"]
    /\ UNCHANGED <<bookmarks, idEnum, recentFolderId, mtx, log, remoteRequests>>

\* Line 665: bm->parentId is written, without the mutex. The store is left as
\* it is when bm is NULL or points to a record that was freed.
rf_parent(t) ==
    /\ pc[t] = "rf_parent"
    /\ bookmarks' = IF loc[t].ptrs # {} /\ loc[t].ptrs \cap dangling[t] = {}
                    THEN [bookmarks EXCEPT ![loc[t].key].parentId = loc[t].bmId]
                    ELSE bookmarks
    /\ loc' = [loc EXCEPT ![t].links = Tail(@), ![t].ptrs = {}]
    /\ dangling' = [dangling EXCEPT ![t] = {}]
    /\ pc' = [pc EXCEPT ![t] = "rf_find"]
    /\ UNCHANGED <<idEnum, recentFolderId, mtx, log, remoteRequests>>

\* Lines 675-681.
rf_post(t) ==
    /\ pc[t] = "rf_post"
    /\ Return(t)
    /\ UNCHANGED <<bookmarks, idEnum, recentFolderId, mtx, log, remoteRequests>>

\* The bookmark the threads add: a remote source.
FinishAddArgs == {a \in FetchAddArgs : a.title = "s"}

\* The responses: at most one link.
FinishResponses == {r \in Responses : Len(r.links) <= 1}

\* A bookmark that requestFinished_Bookmarks added.
IsMerged(bm) == bm.tags = RemoteTags /\ bm.icon = RemoteIcon

NextFinishThreads ==
    \E t \in Threads :
        \/ \E a \in FinishAddArgs : add_lock(t, a) /\ UNCHANGED <<callerVars, syncVars>>
        \/ add_body(t) /\ UNCHANGED <<callerVars, syncVars>>
        \/ add_unlock(t) /\ UNCHANGED <<callerVars, syncVars>>
        \/ add_return(t) /\ UNCHANGED <<callerVars, syncVars>>
        \/ add_done(t) /\ UNCHANGED <<callerVars, syncVars>>
        \/ fetch_test(t) /\ UNCHANGED <<callerVars, disk, remoteSourceTag, commands, uiVars>>
        \/ fetch_lock(t) /\ UNCHANGED <<callerVars, disk, remoteSourceTag, commands, uiVars>>
        \/ fetch_body(t) /\ UNCHANGED <<callerVars, disk, remoteSourceTag, commands, uiVars>>
        \/ fetch_unlock(t) /\ UNCHANGED <<callerVars, disk, remoteSourceTag, commands, uiVars>>
        \/ \E req \in remoteRequests, resp \in FinishResponses :
              rf_take(t, req, resp) /\ UNCHANGED <<callerVars, disk, remoteSourceTag, commands, uiVars>>
        \/ rf_find(t) /\ UNCHANGED <<callerVars, disk, remoteSourceTag, commands, uiVars>>
        \/ rf_add(t) /\ UNCHANGED <<callerVars, disk, remoteSourceTag, commands, uiVars>>
        \/ rf_get(t) /\ UNCHANGED <<callerVars, disk, remoteSourceTag, commands, uiVars>>
        \/ rf_parent(t) /\ UNCHANGED <<callerVars, disk, remoteSourceTag, commands, uiVars>>
        \/ rf_post(t) /\ UNCHANGED <<callerVars, disk, remoteSourceTag, commands, uiVars>>
        \/ list_lock(t) /\ UNCHANGED <<callerVars, syncVars>>
        \/ list_collect(t) /\ UNCHANGED <<callerVars, syncVars>>
        \/ list_unlock(t) /\ UNCHANGED <<callerVars, syncVars>>
        \/ list_sort(t) /\ UNCHANGED <<callerVars, syncVars>>
        \/ list_use(t) /\ UNCHANGED <<callerVars, syncVars>>

SpecFinishThreads == InitFetchThreads /\ [][NextFinishThreads]_vars

\* --------------------------------------------------------------- the mutex
\* The calls of lock_Mutex and unlock_Mutex a store function makes, in the
\* order it makes them, on each of its paths.
list_Path == << "lock", "unlock" >>                               \* 494, 502

findUrl_Path == list_Path                                         \* 483

insert_Path == << "lock", "unlock" >>                             \* 141, 143

clear_Path == << "lock", "unlock" >>                              \* 126, 132

add_Path == << "lock" >> \o insert_Path \o << "unlock" >>         \* 357, 375, 376

sort_Path == << "lock" >> \o list_Path \o << "unlock" >>          \* 268, 269, 273

\* requestFinished_Bookmarks over a body of n links of which the first k are
\* not found by findUrl_Bookmarks: lines 658 and 663.
RECURSIVE requestFinished_Path(_, _)
requestFinished_Path(n, k) ==
    IF n = 0 THEN <<>>
    ELSE findUrl_Path \o (IF k > 0 THEN add_Path ELSE <<>>)
                      \o requestFinished_Path(n - 1, IF k > 0 THEN k - 1 ELSE 0)

\* loadOldFormat_Bookmarks of a file of n records: line 179.
RECURSIVE loadOldFormat_Path(_)
loadOldFormat_Path(n) == IF n = 0 THEN <<>> ELSE insert_Path \o loadOldFormat_Path(n - 1)

\* load_Bookmarks of an old file of n records: lines 277, 283 and 284.
loadOld_Path(n) == clear_Path \o loadOldFormat_Path(n) \o sort_Path

LockPaths ==
    { [op |-> "add",              events |-> add_Path],
      [op |-> "remove",           events |-> << "lock", "unlock" >>],               \* 381, 390: no such id
      [op |-> "remove",           events |-> << "lock" >> \o list_Path \o << "unlock" >>], \* 381, 385, 390
      [op |-> "sort",             events |-> sort_Path],
      [op |-> "updateBookmarkIcon", events |-> << "lock" >> \o findUrl_Path \o << "unlock" >>], \* 396, 397, 407
      [op |-> "list",             events |-> list_Path],
      [op |-> "reorder",          events |-> << "lock", "unlock" >>],               \* 457, 467
      [op |-> "save",             events |-> << "lock", "unlock" >>],               \* 294, 336
      [op |-> "siteIcon",         events |-> <<>>],                                 \* 423
      [op |-> "siteIcon",         events |-> << "lock", "unlock" >>],               \* 432, 448
      [op |-> "bookmarkListPage", events |-> << "lock" >> \o list_Path \o << "unlock" >>], \* 520, 537, 600
      [op |-> "fetchRemote",      events |-> <<>>],                                 \* 686
      [op |-> "fetchRemote",      events |-> << "lock" >> \o list_Path \o << "unlock" >>], \* 688, 703, 714
      [op |-> "load",             events |-> clear_Path] }                          \* 277
    \cup { [op |-> "requestFinished", events |-> requestFinished_Path(n, k)] :
             n \in 0..MaxId, k \in 0..MaxId }
    \cup { [op |-> "load", events |-> loadOld_Path(n)] : n \in 0..MaxId }

\* The number of events e in a path.
CountEvents(path, e) == Cardinality({i \in DOMAIN path : path[i] = e})

path_call(t, p) ==
    /\ pc[t] = "idle"
    /\ pc' = [pc EXCEPT ![t] = "run"]
    /\ loc' = [loc EXCEPT ![t] = [op |-> p.op, rest |-> p.events, ptrs |-> {}]]
    /\ UNCHANGED <<storeVars, mtx, dangling, log>>

path_lock(t) ==
    /\ pc[t] = "run"
    /\ loc[t].rest # <<>>
    /\ Head(loc[t].rest) = "lock"
    /\ CanLock(t)
    /\ mtx' = Locked(t)
    /\ loc' = [loc EXCEPT ![t].rest = Tail(@)]
    /\ UNCHANGED <<storeVars, pc, dangling, log>>

path_unlock(t) ==
    /\ pc[t] = "run"
    /\ loc[t].rest # <<>>
    /\ Head(loc[t].rest) = "unlock"
    /\ mtx' = Unlocked
    /\ loc' = [loc EXCEPT ![t].rest = Tail(@)]
    /\ UNCHANGED <<storeVars, pc, dangling, log>>

path_return(t) ==
    /\ pc[t] = "run"
    /\ loc[t].rest = <<>>
    /\ Return(t)
    /\ UNCHANGED <<storeVars, mtx, log>>

NextLocks ==
    \E t \in Threads :
        \/ \E p \in LockPaths : path_call(t, p) /\ UNCHANGED <<callerVars, syncVars>>
        \/ path_lock(t) /\ UNCHANGED <<callerVars, syncVars>>
        \/ path_unlock(t) /\ UNCHANGED <<callerVars, syncVars>>
        \/ path_return(t) /\ UNCHANGED <<callerVars, syncVars>>

SpecLocks == InitThreads /\ [][NextLocks]_vars

\* -------------------------------------------------- the file and threads
\* load_Bookmarks, line 277: clear_Bookmarks takes the lock for itself.
load_clear_lock(t, f) ==
    /\ pc[t] = "idle"
    /\ CanLock(t)
    /\ mtx' = Locked(t)
    /\ pc' = [pc EXCEPT ![t] = "load_clear_body"]
    /\ loc' = [loc EXCEPT ![t] = [op |-> "load", blocks |-> f.blocks, ptrs |-> {}]]
    /\ UNCHANGED <<bookmarks, idEnum, recentFolderId, dangling, log>>

load_clear_body(t) ==
    /\ pc[t] = "load_clear_body"
    /\ bookmarks' = EmptyHash
    /\ idEnum' = 0
    /\ dangling' = Freeing(DOMAIN bookmarks)
    /\ log' = [log EXCEPT !.cleared = TRUE]
    /\ pc' = [pc EXCEPT ![t] = "load_clear_unlock"]
    /\ UNCHANGED <<recentFolderId, mtx, loc>>

load_clear_unlock(t) ==
    /\ pc[t] = "load_clear_unlock"
    /\ mtx' = Unlocked
    /\ pc' = [pc EXCEPT ![t] = "load_insert"]
    /\ UNCHANGED <<bookmarks, idEnum, recentFolderId, loc, dangling, log>>

\* load_BookmarkLoader, one table of the file at a time: handleTable_ and
\* handleKeyValue_BookmarkLoader_ write the allocator and the hash; no lock is
\* taken in load_Bookmarks after clear_Bookmarks has returned.
load_insert(t) ==
    /\ pc[t] = "load_insert"
    /\ IF loc[t].blocks = <<>>
       THEN /\ Return(t)
            /\ UNCHANGED <<bookmarks, idEnum>>
       ELSE LET b == Head(loc[t].blocks)
            IN  /\ bookmarks' = insertId_Bookmarks_(bookmarks, LoadedBookmark(b), b.id)
                /\ idEnum' = IF b.id > idEnum THEN b.id ELSE idEnum
                /\ loc' = [loc EXCEPT ![t].blocks = Tail(@)]
                /\ UNCHANGED <<pc, dangling>>
    /\ UNCHANGED <<recentFolderId, mtx, log>>

\* save_Bookmarks, line 294
save_lock(t) ==
    /\ pc[t] = "idle"
    /\ CanLock(t)
    /\ mtx' = Locked(t)
    /\ pc' = [pc EXCEPT ![t] = "save_write"]
    /\ loc' = [loc EXCEPT ![t] = [op |-> "save", ptrs |-> {}]]
    /\ UNCHANGED <<bookmarks, idEnum, recentFolderId, dangling, log, syncVars>>

\* lines 295-335
save_write(t) ==
    /\ pc[t] = "save_write"
    /\ \E q \in Arrays(SavedIds(bookmarks)) :
          disk' = [recentfolder |-> {recentFolderId},
                   blocks |-> [k \in DOMAIN q |-> SavedBlock(q[k], bookmarks[q[k]])]]
    /\ pc' = [pc EXCEPT ![t] = "save_unlock"]
    /\ UNCHANGED <<bookmarks, idEnum, recentFolderId, mtx, loc, dangling, log,
                   remoteRequests, remoteSourceTag, commands, uiVars>>

\* line 336
save_unlock(t) ==
    /\ pc[t] = "save_unlock"
    /\ mtx' = Unlocked
    /\ Return(t)
    /\ UNCHANGED <<bookmarks, idEnum, recentFolderId, log, syncVars>>

\* The files the threads load.
ThreadFiles ==
    [recentfolder : {{}},
     blocks : {<<Block(1, UrlRoot, 0, 0, 1)>>,
               <<Block(1, UrlRoot, 0, 0, 1), Block(2, UrlLowerX, 0, 0, 2)>>}]

\* Where a thread is inside load_Bookmarks once the store is cleared, and
\* inside save_Bookmarks while the file is written.
LoadPcs == {"load_clear_unlock", "load_insert"}

SavePcs == {"save_write"}

\* Where a thread is about to read or write the hash in add_Bookmarks,
\* remove_Bookmarks or list_Bookmarks.
MutatorPcs == {"add_body", "remove_body", "list_collect"}

NextFileThreads ==
    \E t \in Threads :
        \/ \E a \in OrderAddArgs : add_lock(t, a) /\ UNCHANGED <<callerVars, syncVars>>
        \/ add_body(t) /\ UNCHANGED <<callerVars, syncVars>>
        \/ add_unlock(t) /\ UNCHANGED <<callerVars, syncVars>>
        \/ add_return(t) /\ UNCHANGED <<callerVars, syncVars>>
        \/ add_done(t) /\ UNCHANGED <<callerVars, syncVars>>
        \/ \E f \in ThreadFiles : load_clear_lock(t, f) /\ UNCHANGED <<callerVars, syncVars>>
        \/ load_clear_body(t) /\ UNCHANGED <<callerVars, syncVars>>
        \/ load_clear_unlock(t) /\ UNCHANGED <<callerVars, syncVars>>
        \/ load_insert(t) /\ UNCHANGED <<callerVars, syncVars>>
        \/ save_lock(t) /\ UNCHANGED callerVars
        \/ save_write(t) /\ UNCHANGED callerVars
        \/ save_unlock(t) /\ UNCHANGED callerVars

SpecFileThreads == InitThreads /\ [][NextFileThreads]_vars

\* ------------------------------------------------------- the tag string
\* Where addTag_Bookmark and removeTag_Bookmark are followed, the field tags
\* is the string itself, a sequence of characters: letters, the space and
\* the hyphen.
TagChars == {"a", "b", " ", "-"}

\* \w of the regular expressions.
IsWordChar(c) == c \in {"a", "b"}

\* \b between the characters i and i + 1 of s; i = 0 is the start of the
\* string and i = Len(s) its end.
WordBoundary(s, i) ==
    LET left  == i >= 1 /\ IsWordChar(s[i])
        right == i + 1 <= Len(s) /\ IsWordChar(s[i + 1])
    IN  left # right

\* The positions at which tag occurs in s.
Occurrences(s, tag) ==
    {p \in 1..(Len(s) - Len(tag) + 1) : SubSeq(s, p, p + Len(tag) - 1) = tag}

\* hasTag_Bookmark on the characters: matchString_RegExp of \b<tag>\b.
hasTag_Chars(s, tag) ==
    \E p \in Occurrences(s, tag) :
        WordBoundary(s, p - 1) /\ WordBoundary(s, p + Len(tag) - 1)

\* addTag_Bookmark: the string it leaves.
TagAdded(s, tag) == IF s # <<>> THEN s \o <<" ">> \o tag ELSE tag

\* indexOfCStr_String: the first position of tag in s; 0 stands for iInvalidPos.
indexOfCStr_String(s, tag) ==
    IF Occurrences(s, tag) = {} THEN 0
    ELSE CHOOSE p \in Occurrences(s, tag) : \A q \in Occurrences(s, tag) : p <= q

\* trim_String: the spaces at both ends are dropped.
RECURSIVE trim_String(_)
trim_String(s) ==
    IF s = <<>> THEN s
    ELSE IF Head(s) = " " THEN trim_String(Tail(s))
    ELSE IF s[Len(s)] = " " THEN trim_String(SubSeq(s, 1, Len(s) - 1))
    ELSE s

\* removeTag_Bookmark: the string it leaves.
TagRemoved(s, tag) ==
    LET pos == indexOfCStr_String(s, tag)
    IN  IF pos = 0 THEN s
        ELSE trim_String(SubSeq(s, 1, pos - 1) \o SubSeq(s, pos + Len(tag), Len(s)))

\* The tokens of a tag string: what stands between its spaces.
Tokens(s) ==
    {SubSeq(s, pq[1], pq[2]) : pq \in
        {pq \in (1..Len(s)) \X (1..Len(s)) :
            /\ pq[1] <= pq[2]
            /\ \A k \in pq[1]..pq[2] : s[k] # " "
            /\ pq[1] = 1 \/ s[pq[1] - 1] = " "
            /\ pq[2] = Len(s) \/ s[pq[2] + 1] = " "}}

\* The tags given to hasTag, addTag and removeTag.
TagArgs == {<<"a">>, <<"b">>, <<"a", "b">>}

\* The bookmark whose tags are followed.
TheBookmark == 1

addTag_Bookmark(tag) ==
    /\ Len(bookmarks[TheBookmark].tags) + Len(tag) <= MaxTagLen
    /\ bookmarks' = [bookmarks EXCEPT ![TheBookmark].tags = TagAdded(@, tag)]
    /\ call' = [op |-> "addTag", tag |-> tag]
    /\ UNCHANGED <<idEnum, recentFolderId, addBookmarksToBottom, now>>

removeTag_Bookmark(tag) ==
    /\ bookmarks' = [bookmarks EXCEPT ![TheBookmark].tags = TagRemoved(@, tag)]
    /\ call' = [op |-> "removeTag", tag |-> tag, tags |-> bookmarks[TheBookmark].tags]
    /\ UNCHANGED <<idEnum, recentFolderId, addBookmarksToBottom, now>>

\* One bookmark, with any tag string of up to MaxTagLen characters.
InitTags ==
    /\ \E s \in SeqsUpTo(TagChars, MaxTagLen) :
          bookmarks = [i \in {TheBookmark} |->
                          [init_Bookmark EXCEPT !.url = UrlRoot, !.tags = s]]
    /\ idEnum = 1
    /\ recentFolderId = 0
    /\ addBookmarksToBottom = TRUE
    /\ now = 0
    /\ call = NoCall
    /\ ThreadInit
    /\ SyncInit

NextTags ==
    \/ \E tag \in TagArgs : addTag_Bookmark(tag) /\ UNCHANGED <<threadVars, syncVars>>
    \/ \E tag \in TagArgs : removeTag_Bookmark(tag) /\ UNCHANGED <<threadVars, syncVars>>

SpecTags == InitTags /\ [][NextTags]_vars

\* ------------------------------------------------------- the old format
\* The lines of the old bookmarks file. A record is three lines: the icon in
\* hexadecimal, the time in seconds and the URL; the title; the tags.
BlankLine == [kind |-> "blank"]

HeadLine(icon, created, url) ==
    [kind |-> "head", icon |-> icon, created |-> created, url |-> url]

TitleLine(title) == [kind |-> "title", title |-> title]

TagsLine(tags) == [kind |-> "tags", tags |-> tags]

\* setRange_String of the second and of the third line of a record.
LineTitle(l) == IF l.kind = "title" THEN l.title ELSE ""

LineTags(l) == IF l.kind = "tags" THEN l.tags ELSE NoTags

\* loadOldFormat_Bookmarks of a file that can be opened: empty lines are
\* skipped where a record starts, the two lines after the first line of a
\* record are its title and its tags, and the record is inserted under
\* ++idEnum. (The files followed here end on a complete record.)
RECURSIVE loadOldFormat_Bookmarks(_, _)
loadOldFormat_Bookmarks(st, lines) ==
    IF lines = <<>> THEN st
    ELSE IF Head(lines).kind = "blank" THEN loadOldFormat_Bookmarks(st, Tail(lines))
    ELSE LET bm == [init_Bookmark EXCEPT
                       !.icon  = lines[1].icon,
                       !.when  = initSeconds_Time(lines[1].created),
                       !.url   = canonicalUrl_String(lines[1].url),
                       !.title = LineTitle(lines[2]),
                       !.tags  = LineTags(lines[3])]
         IN  loadOldFormat_Bookmarks(
                 [bms |-> insertId_Bookmarks_(st.bms, bm, st.enum + 1), enum |-> st.enum + 1],
                 SubSeq(lines, 4, Len(lines)))

\* load_Bookmarks that never sorts.
LoadedNoSort(dir, recent) ==
    LET empty == [bms |-> EmptyHash, enum |-> 0]
    IN  IF dir.ini # NoFile
        THEN LET st == LoadBlocks(empty, dir.ini.blocks)
             IN  {[bms |-> st.bms, enum |-> st.enum,
                   recent |-> IF dir.ini.recentfolder = {} THEN recent
                              ELSE CHOOSE v \in dir.ini.recentfolder : TRUE]}
        ELSE LET st == IF dir.old = NoFile THEN empty
                       ELSE loadOldFormat_Bookmarks(empty, dir.old.lines)
             IN  {[bms |-> st.bms, enum |-> st.enum, recent |-> recent]}

\* load_Bookmarks of a directory: its bookmarks.ini and its old bookmarks
\* file, NoFile for one that cannot be opened. The stores it can leave: the
\* old file is read only when bookmarks.ini cannot be opened, and its records
\* are then sorted by title.
Loaded(dir, recent) ==
    LET empty == [bms |-> EmptyHash, enum |-> 0]
    IN  IF dir.ini # NoFile
        THEN LET st == LoadBlocks(empty, dir.ini.blocks)
             IN  {[bms |-> st.bms, enum |-> st.enum,
                   recent |-> IF dir.ini.recentfolder = {} THEN recent
                              ELSE CHOOSE v \in dir.ini.recentfolder : TRUE]}
        ELSE LET st   == IF dir.old = NoFile THEN empty
                         ELSE loadOldFormat_Bookmarks(empty, dir.old.lines)
                 kids == list_Bookmarks(st.bms, {bm \in Records(st.bms) :
                                                   isMatchingParent_Bookmark_(0, bm)})
             IN  {[bms |-> Sorted(st.bms, q), enum |-> st.enum, recent |-> recent] :
                    q \in sort_Array(st.bms, kids, "title")}

\* load_Bookmarks when the application starts.
loadDir_Bookmarks(dir) ==
    /\ call = NoCall
    /\ \E st \in Loaded(dir, recentFolderId) :
          /\ bookmarks' = st.bms
          /\ idEnum' = st.enum
          /\ recentFolderId' = st.recent
    /\ call' = [op |-> "load", dir |-> dir]
    /\ UNCHANGED <<addBookmarksToBottom, now>>

\* The records of the old files: one titled "b", one titled "A" with an empty
\* tags line, one titled "a".
OldGroups ==
    { << HeadLine(65, 1, UrlRootRaw), TitleLine("b"), TagsLine(NoTags) >>,
      << HeadLine(66, 0, UrlLowerX),  TitleLine("A"), BlankLine >>,
      << HeadLine(65, 0, UrlUpperX),  TitleLine("a"), TagsLine(RemoteTags) >> }

\* The records q one after the other, sep before each.
RECURSIVE Joined(_, _)
Joined(q, sep) ==
    IF q = <<>> THEN <<>> ELSE sep \o Head(q) \o Joined(Tail(q), sep)

OldFiles ==
    {[lines |-> Joined(q, sep)] : q \in SeqsUpTo(OldGroups, MaxFileLen), sep \in {<<>>, <<BlankLine>>}}

\* The bookmarks.ini of the directories: no block, or one.
IniFiles == {f \in Files : Len(f.blocks) <= 1}

Dirs == [ini : IniFiles \cup {NoFile}, old : OldFiles \cup {NoFile}]

NextLegacy ==
    \/ \E dir \in Dirs : loadDir_Bookmarks(dir) /\ UNCHANGED <<threadVars, syncVars>>
    \/ \E a \in AddArgs : add_Bookmarks(a) /\ UNCHANGED <<threadVars, syncVars>>
    \/ Tick /\ UNCHANGED <<threadVars, syncVars>>

SpecLegacy == Init /\ [][NextLegacy]_vars

\* ------------------------------------------------------------ properties
SameUrl(bm, url) == equalCase_String(canonicalUrl_String(url), bm.url)

\* C1: every step that reads or writes the hash, the id allocator or the
\* recent-folder id is taken by a thread that holds the store mutex.
C1_LockDiscipline == \A t \in Threads : pc[t] \in AccessPcs => mtx.owner = t

\* C2: while a thread sorts or uses the array list returned, every pointer in
\* the array refers to a record that has not been freed.
C2_SnapshotLive ==
    \A t \in Threads : pc[t] \in {"list_sort", "list_use"} => Held(t) \cap dangling[t] = {}

\* C3: after add(url, title, tags, icon) has returned id, get(id) is a record
\* with that title, those tags and that icon, the canonical form of url, and
\* parentId 0.
C3_AddThenGet ==
    call.op = "add" =>
        LET bm == get_Bookmarks(bookmarks, call.ret)
        IN  /\ bm # NoBm
            /\ bm.title = call.title
            /\ bm.tags = call.tags
            /\ bm.icon = call.icon
            /\ bm.url = canonicalUrl_String(call.url)
            /\ bm.parentId = 0

C3_Witness ==
    /\ call.op = "add"
    /\ call.url = UrlRootRaw
    /\ call.ret = 2
    /\ 0 \in DOMAIN bookmarks

\* C4: while no clear has run, the allocator is at or above every id that was
\* ever in the store, so the next add gets a greater one; every add returns
\* the id it was given, and no two adds return the same id.
C4_IdsNeverReused ==
    ~log.cleared =>
        /\ \A i \in log.ever \cup DOMAIN bookmarks : i <= idEnum
        /\ \A t \in Threads : pc[t] = "add_done" => loc[t].ret = loc[t].key
        /\ \A t, u \in Threads :
              (t # u /\ pc[t] = "add_done" /\ pc[u] = "add_done") => loc[t].ret # loc[u].ret

\* C5: remove(id) of a present id returns true; removing the same id again with
\* no call in between returns false and leaves the store as it is; remove of
\* an absent id returns false and changes nothing.
C5_RemoveTwice ==
    [][\A id \in QueryIds :
          remove_Bookmarks(id) =>
              /\ id \in DOMAIN bookmarks => call'.ret = TRUE
              /\ id \notin DOMAIN bookmarks =>
                     call'.ret = FALSE /\ <<bookmarks, idEnum, recentFolderId>>' =
                                          <<bookmarks, idEnum, recentFolderId>>
              /\ (call.op = "remove" /\ call.id = id /\ call.ret = TRUE) =>
                     call'.ret = FALSE /\ bookmarks' = bookmarks]_vars

C5_Witness ==
    /\ call.op = "remove"
    /\ call.ret = FALSE
    /\ call.pre.op = "remove"
    /\ call.pre.id = call.id
    /\ call.pre.ret = TRUE
    /\ bookmarks # EmptyHash

C8_NoIdZero ==
    /\ 0 \notin DOMAIN bookmarks
    /\ \A u \in FindArgs :
          0 \in findUrl_Bookmarks(bookmarks, u) =>
              \A i \in DOMAIN bookmarks : ~SameUrl(bookmarks[i], u)

\* C9: reorder(id, newOrder) gives id the order newOrder, adds one to the order
\* of every other bookmark whose order was >= newOrder, and changes nothing
\* else: no other order, no other field, no membership.
C9_ReorderShifts ==
    [][\A id \in QueryIds, n \in NewOrders :
          reorder_Bookmarks(id, n) =>
              /\ DOMAIN bookmarks' = DOMAIN bookmarks
              /\ <<idEnum, recentFolderId>>' = <<idEnum, recentFolderId>>
              /\ \A i \in DOMAIN bookmarks :
                    bookmarks'[i] =
                        [bookmarks[i] EXCEPT !.order =
                            IF i = id THEN n
                            ELSE IF bookmarks[i].order >= n THEN bookmarks[i].order + 1
                            ELSE bookmarks[i].order]]_vars

\* id was put at newOrder between a bookmark that was shifted and one that was not.
C9_Witness ==
    /\ call.op = "reorder"
    /\ call.id \in DOMAIN bookmarks
    /\ bookmarks[call.id].order = call.newOrder
    /\ \E i, j \in DOMAIN bookmarks \ {call.id} :
          /\ bookmarks[i].order = call.newOrder + 1
          /\ bookmarks[j].order < call.newOrder

Siblings(bms, id) == {i \in DOMAIN bms \ {id} : bms[i].parentId = bms[id].parentId}

\* The position of id among its siblings after reorder(id, n).
Placed(old, new, id, n) ==
    \A i \in Siblings(old, id) :
        /\ old[i].order >= n => new[id].order < new[i].order
        /\ old[i].order < n  => new[i].order < new[id].order

\* C10 as claimed: after reorder(id, n), id is before every sibling whose order
\* was >= n and after every sibling whose order was < n, and no two of id and
\* its siblings have the same order.
C10_ReorderDistinct ==
    [][\A id \in DOMAIN bookmarks, n \in NewOrders :
          reorder_Bookmarks(id, n) =>
              /\ Placed(bookmarks, bookmarks', id, n)
              /\ \A i, j \in Siblings(bookmarks, id) \cup {id} :
                    i # j => bookmarks'[i].order # bookmarks'[j].order]_vars

\* C10 amended: id is placed as claimed and its order differs from the order of
\* every sibling; two siblings have the same order afterwards only if they had
\* the same order before the call.
C10_ReorderNoNewTie ==
    [][\A id \in DOMAIN bookmarks, n \in NewOrders :
          reorder_Bookmarks(id, n) =>
              /\ Placed(bookmarks, bookmarks', id, n)
              /\ \A i \in Siblings(bookmarks, id) :
                    bookmarks'[i].order # bookmarks'[id].order
              /\ \A i, j \in Siblings(bookmarks, id) :
                    bookmarks'[i].order = bookmarks'[j].order =>
                        bookmarks[i].order = bookmarks[j].order]_vars

\* id was reordered while two of its siblings, loaded with equal orders, stay tied.
C10_Witness ==
    /\ call.op = "reorder"
    /\ call.id \in DOMAIN bookmarks
    /\ \E i, j \in Siblings(bookmarks, call.id) :
          i # j /\ bookmarks[i].order = bookmarks[j].order

\* The bookmarks directly inside parentId.
Children(bms, parentId) == {i \in DOMAIN bms : bms[i].parentId = parentId}

\* C11: after sort(parentId, cmp) the k bookmarks whose parentId is parentId
\* carry the orders 1..k, each once, in the sequence cmp sorts them; every
\* other bookmark keeps its order, and no other field or membership changes.
\* (The steps that leave call.op = "sort" are the calls of sort_Bookmarks.)
C11_SortRanks ==
    [][call'.op = "sort" =>
              LET p    == call'.parentId
                  c    == call'.cmp
                  kids == Children(bookmarks, p)
              IN  /\ DOMAIN bookmarks' = DOMAIN bookmarks
                  /\ \A i \in DOMAIN bookmarks :
                        bookmarks'[i] = [bookmarks[i] EXCEPT !.order = bookmarks'[i].order]
                  /\ \A i \in DOMAIN bookmarks \ kids : bookmarks'[i].order = bookmarks[i].order
                  /\ {bookmarks'[i].order : i \in kids} = 1..Cardinality(kids)
                  /\ \A i, j \in kids :
                        Compare(c, bookmarks[i], bookmarks[j]) < 0 =>
                            bookmarks'[i].order < bookmarks'[j].order]_vars

\* The two bookmarks inside folder 1 were ranked newest first, the older one
\* moving from order 1 to order 2, while the folder itself kept its order.
C11_Witness ==
    /\ call.op = "sort"
    /\ call.cmp = "null"
    /\ call.parentId = 1
    /\ DOMAIN bookmarks = {1, 2, 3}
    /\ Children(bookmarks, 1) = {2, 3}
    /\ bookmarks[3].when < bookmarks[2].when
    /\ bookmarks[2].order = 1
    /\ bookmarks[3].order = 2
    /\ bookmarks[1].order = 1

\* C12: add gives the new bookmark the order (least order in the store) - 1
\* with the prepend preference and an order greater than every order in the
\* store with the append preference, -1 and 0 when the store is empty; in both
\* cases no bookmark already in the store has that order.
C12_AddFreshOrder ==
    [][\A a \in OrderAddArgs :
          add_Bookmarks(a) =>
              LET new == bookmarks'[call'.ret].order
              IN  /\ call'.ret \notin DOMAIN bookmarks
                  /\ \A i \in DOMAIN bookmarks : bookmarks[i].order # new
                  /\ IF bookmarks = EmptyHash
                     THEN new = IF addBookmarksToBottom THEN 0 ELSE -1
                     ELSE IF addBookmarksToBottom
                          THEN \A i \in DOMAIN bookmarks : new > bookmarks[i].order
                          ELSE /\ \A i \in DOMAIN bookmarks : new < bookmarks[i].order
                               /\ \E i \in DOMAIN bookmarks : new = bookmarks[i].order - 1]_vars

\* A bookmark was prepended to a store whose least order was 1.
C12_Witness ==
    /\ call.op = "add"
    /\ ~addBookmarksToBottom
    /\ bookmarks[call.ret].order = 0
    /\ \E i \in DOMAIN bookmarks : bookmarks[i].order = 1
    /\ \A i \in DOMAIN bookmarks \ {call.ret} : bookmarks[i].order >= 1

C14_SetRecentFolder ==
    [][\A id \in QueryIds :
          setRecentFolder_Bookmarks(id) =>
              /\ recentFolder_Bookmarks' =
                     IF id \in DOMAIN bookmarks /\ isFolder_Bookmark(bookmarks[id]) THEN id ELSE 0
              /\ <<bookmarks, idEnum>>' = <<bookmarks, idEnum>>]_vars

\* The recent folder was reset by naming a bookmark that is not a folder,
\* while a folder is in the store.
C14_Witness ==
    /\ call.op = "setRecentFolder"
    /\ recentFolder_Bookmarks = 0
    /\ call.id \in DOMAIN bookmarks
    /\ ~isFolder_Bookmark(bookmarks[call.id])
    /\ \E i \in DOMAIN bookmarks : i # 0 /\ isFolder_Bookmark(bookmarks[i])

\* The bookmarks tagged user-icon whose root is the root of url.
SiteTagged(bms, url) ==
    {i \in DOMAIN bms :
        /\ hasTag_Bookmark(bms[i], userIcon_BookmarkTag)
        /\ equalRangeCase_Rangecc(urlRoot_String(url), urlRoot_String(bms[i].url))}

\* Those of ids whose URL is the shortest.
Shortest(bms, ids) ==
    {i \in ids : \A j \in ids : size_String(bms[i].url) <= size_String(bms[j].url)}

\* C15 as claimed: siteIcon(url) is the icon of a bookmark with the shortest URL
\* among the bookmarks tagged user-icon that have the root of url, and 0 when
\* there is none.
C15_SiteIconShortest ==
    \A u \in SiteUrls \ {EmptyUrl} :
        \A v \in siteIcon_Bookmarks(bookmarks, u) :
            IF SiteTagged(bookmarks, u) = {} THEN v = 0
            ELSE \E i \in Shortest(bookmarks, SiteTagged(bookmarks, u)) : v = bookmarks[i].icon

\* C15 amended: siteIcon(url) is 0 for an empty url; otherwise it is the icon
\* of a bookmark with the shortest URL among the bookmarks that have an icon
\* other than 0, are tagged user-icon and have the root of url, and 0 when
\* there is none.
C15_SiteIconShortestWithIcon ==
    \A u \in SiteUrls :
        LET got  == siteIcon_Bookmarks(bookmarks, u)
            with == {i \in SiteTagged(bookmarks, u) : bookmarks[i].icon # 0}
        IN  /\ got # {}
            /\ \A v \in got :
                  IF u = EmptyUrl \/ with = {} THEN v = 0
                  ELSE \E i \in Shortest(bookmarks, with) : v = bookmarks[i].icon

\* The scenario of the spec: gemini://a/ with icon 65 and gemini://a/x with
\* icon 66, both tagged user-icon; the icon for gemini://a/x/y is 65.
C15_Witness ==
    /\ \E i, j \in DOMAIN bookmarks :
          /\ bookmarks[i].url = UrlRoot /\ bookmarks[i].icon = 65
          /\ hasTag_Bookmark(bookmarks[i], userIcon_BookmarkTag)
          /\ bookmarks[j].url = UrlLowerX /\ bookmarks[j].icon = 66
          /\ hasTag_Bookmark(bookmarks[j], userIcon_BookmarkTag)
    /\ siteIcon_Bookmarks(bookmarks, UrlLowerXY) = {65}

\* C16: list(cmp, filter, context) returns the stored bookmarks for which the
\* filter is true (all of them without a filter), each once, in an order cmp
\* agrees with, newest first when cmp is absent; the store is left as it was.
\* (The steps that leave call.op = "list" are the calls of list_Bookmarks.)
C16_ListFilterSort ==
    [][call'.op = "list" =>
          LET q   == call'.ret
              acc == {i \in DOMAIN bookmarks :
                         call'.filter = "null" \/ bookmarks[i].parentId = call'.context}
          IN  /\ {q[k] : k \in DOMAIN q} = acc
              /\ DOMAIN q = 1..Cardinality(acc)
              /\ \A i, j \in DOMAIN q :
                    i < j => Compare(call'.cmp, bookmarks[q[i]], bookmarks[q[j]]) <= 0
              /\ call'.cmp = "null" =>
                    \A i, j \in DOMAIN q : i < j => bookmarks[q[i]].when >= bookmarks[q[j]].when
              /\ <<bookmarks, idEnum, recentFolderId>>' = <<bookmarks, idEnum, recentFolderId>>]_vars

\* The two bookmarks inside folder 1 were listed newest first; the folder is
\* not in the array.
C16_Witness ==
    /\ call.op = "list"
    /\ call.cmp = "null"
    /\ call.filter = "inside"
    /\ DOMAIN call.ret = 1..2
    /\ bookmarks[call.ret[1]].when > bookmarks[call.ret[2]].when
    /\ \E i \in DOMAIN bookmarks : bookmarks[i].parentId = 0

\* C17: save followed by load gives back every bookmark that is not tagged
\* remote, under its id, with the same url, title, tags, icon, creation time,
\* parent and order, also when parent or order is 0 and its key is not
\* written.
C17_SaveLoadRoundTrip ==
    [][(call.op = "save" /\ loadSaved_Bookmarks) =>
          \A i \in DOMAIN bookmarks :
              ~hasTag_Bookmark(bookmarks[i], remote_BookmarkTag) =>
                  /\ i \in DOMAIN bookmarks'
                  /\ bookmarks'[i] = bookmarks[i]]_vars

\* C18: the file save writes has no block of a bookmark tagged remote, and
\* the store loaded from it holds no bookmark tagged remote.
C18_RemoteNeverSaved ==
    /\ disk # NoFile =>
          \A k \in DOMAIN disk.blocks :
              ~hasTag_Bookmark(disk.blocks[k], remote_BookmarkTag)
    /\ (disk # NoFile /\ call.op = "load") =>
          \A i \in DOMAIN bookmarks : ~hasTag_Bookmark(bookmarks[i], remote_BookmarkTag)

\* save has written a file for a store that holds a bookmark tagged remote
\* and one that is not.
C18_Witness ==
    /\ call.op = "save"
    /\ disk # NoFile
    /\ disk.blocks # <<>>
    /\ \E i \in DOMAIN bookmarks : hasTag_Bookmark(bookmarks[i], remote_BookmarkTag)

\* C19: a bookmark that does not carry remote as a whole tag (one tagged
\* remote-source, say) is not removed by the purge of fetchRemote and is
\* written by save.
C19_OnlyWholeTagRemote ==
    [][LET Stable == {i \in DOMAIN bookmarks :
                        \A n \in DOMAIN bookmarks[i].tags :
                            bookmarks[i].tags[n] # remote_BookmarkTag}
       IN  /\ fetchRemote_Bookmarks => Stable \subseteq DOMAIN bookmarks'
           /\ save_Bookmarks =>
                 \A i \in Stable : \E k \in DOMAIN disk'.blocks : disk'.blocks[k].id = i]_vars

\* C20: fetchRemote while a request is not finished removes no bookmark,
\* submits no request, posts no notification and leaves the requests as they
\* are.
C20_FetchWhileOutstanding ==
    [][(fetchRemote_Bookmarks /\ remoteRequests # {}) =>
          /\ bookmarks' = bookmarks
          /\ idEnum' = idEnum
          /\ remoteRequests' = remoteRequests
          /\ call'.submitted = {}
          /\ call'.posted = 0]_vars

\* fetchRemote has returned at once: a request is still there, beside a
\* bookmark tagged remote that a purge would have removed.
C20_Witness ==
    /\ call.op = "fetchRemote"
    /\ call.submitted = {}
    /\ remoteRequests # {}
    /\ \E i \in DOMAIN bookmarks : hasTag_Bookmark(bookmarks[i], remote_BookmarkTag)

C22_OneRequestPerSource ==
    \A r1, r2 \in remoteRequests : r1.bmId = r2.bmId => r1 = r2

\* C23: a request that finishes with success adds, for each link of the body
\* whose canonical URL no bookmark holds, exactly one bookmark, tagged remote,
\* with the placeholder icon and the source's id as parentId; for a link whose
\* URL a bookmark already holds it adds nothing; it adds nothing else and
\* changes no bookmark that was there.
C23_MergeDeduplicates ==
    [][\A req \in remoteRequests, resp \in Responses :
          (resp.ok /\ requestFinished_Bookmarks(req, resp)) =>
              /\ \A i \in DOMAIN bookmarks :
                    i \in DOMAIN bookmarks' /\ bookmarks'[i] = bookmarks[i]
              /\ \A n \in DOMAIN resp.links :
                    LET u      == canonicalUrl_String(resp.links[n].url)
                        before == {i \in DOMAIN bookmarks : bookmarks[i].url = u}
                        after  == {i \in DOMAIN bookmarks' : bookmarks'[i].url = u}
                    IN  IF before # {} THEN after = before
                        ELSE /\ Cardinality(after) = 1
                             /\ \A i \in after :
                                   /\ bookmarks'[i].tags = RemoteTags
                                   /\ bookmarks'[i].icon = RemoteIcon
                                   /\ bookmarks'[i].parentId = req.bmId
              /\ \A i \in DOMAIN bookmarks' \ DOMAIN bookmarks :
                    \E n \in DOMAIN resp.links :
                        bookmarks'[i].url = canonicalUrl_String(resp.links[n].url)]_vars

\* C24: of the completions of one sync cycle, the one that leaves no request
\* outstanding posts "bookmarks.changed" once, and a completion that leaves a
\* request outstanding posts nothing, in whatever order the requests finish.
C24_DrainNotification ==
    [][\A req \in remoteRequests, resp \in Responses :
          requestFinished_Bookmarks(req, resp) =>
              call'.posted = (IF remoteRequests' = {} THEN 1 ELSE 0)]_vars

\* The first of two requests has finished: nothing was posted.
C24_Witness ==
    /\ call.op = "requestFinished"
    /\ call.posted = 0
    /\ remoteRequests # {}

\* C25: a request that finishes without success adds no bookmark and changes
\* none; it is removed from the requests outstanding, and when it was the
\* last one "bookmarks.changed" is posted.
C25_FailedFetch ==
    [][\A req \in remoteRequests, resp \in Responses :
          (~resp.ok /\ requestFinished_Bookmarks(req, resp)) =>
              /\ bookmarks' = bookmarks
              /\ idEnum' = idEnum
              /\ remoteRequests' = remoteRequests \ {req}
              /\ remoteRequests' = {} => call'.posted = 1]_vars

\* The last request has finished without success.
C25_Witness ==
    /\ call.op = "requestFinished"
    /\ ~call.ok
    /\ call.posted = 1
    /\ remoteRequests = {}

\* C26: deinit_Bookmarks cancels every request that is outstanding when it
\* is called, and after it no request is outstanding and the store holds no
\* record.
C26_CleanShutdown ==
    [][deinit_Bookmarks =>
          /\ call'.cancelled = remoteRequests
          /\ remoteRequests' = {}
          /\ bookmarks' = EmptyHash]_vars

\* The store was torn down while two requests were outstanding.
C26_Witness ==
    /\ call.op = "deinit"
    /\ Cardinality(call.cancelled) = 2
    /\ remoteRequests = {}

\* C27: while a thread is inside load_Bookmarks, from its clear to the
\* insertion of the last record, or inside save_Bookmarks writing the file,
\* it owns the mutex, and no other thread is about to read or write the store
\* in add, remove or list.
C27_LoadSaveHoldLock ==
    \A t \in Threads :
        pc[t] \in LoadPcs \cup SavePcs =>
            /\ mtx.owner = t
            /\ \A u \in Threads \ {t} : pc[u] \notin MutatorPcs

\* C28: hasTag(t) is true exactly when t is one of the tokens of the
\* space-separated tag string, and false when t is only a part of a longer
\* token.
C28_HasTagIsTokenTest ==
    \A tag \in TagArgs :
        hasTag_Chars(bookmarks[TheBookmark].tags, tag)
            <=> tag \in Tokens(bookmarks[TheBookmark].tags)

\* C29: after addTag(t) hasTag(t) is true; after removeTag(t) hasTag(t) is
\* false and every other token of the tag string is still a token, also when
\* t occurs inside another token or more than once.
C29_TagAddRemove ==
    [][\A tag \in TagArgs :
          /\ addTag_Bookmark(tag) => hasTag_Chars(bookmarks'[TheBookmark].tags, tag)
          /\ removeTag_Bookmark(tag) =>
                /\ ~hasTag_Chars(bookmarks'[TheBookmark].tags, tag)
                /\ Tokens(bookmarks[TheBookmark].tags) \ {tag}
                      \subseteq Tokens(bookmarks'[TheBookmark].tags)]_vars

\* C30: when bookmarks.ini cannot be opened, load reads the old file, three
\* lines to a record and empty lines between records skipped, and gives the
\* n bookmarks the orders 1..n by ascending title, letter case ignored; when
\* bookmarks.ini can be opened the old file is not read and the orders are
\* those of bookmarks.ini.
C30_LegacyFallback ==
    [][(call = NoCall /\ call'.op = "load") =>
          LET dir == call'.dir
              old == IF dir.old = NoFile THEN <<>> ELSE dir.old.lines
              n   == Cardinality({p \in DOMAIN old : old[p].kind = "head"})
          IN  IF dir.ini # NoFile
              THEN bookmarks' = LoadBlocks([bms |-> EmptyHash, enum |-> 0], dir.ini.blocks).bms
              ELSE /\ DOMAIN bookmarks' = 1..n
                   /\ \A p \in DOMAIN old :
                         old[p].kind = "head" =>
                             LET id == Cardinality({k \in 1..p : old[k].kind = "head"})
                             IN  /\ bookmarks'[id].url = canonicalUrl_String(old[p].url)
                                 /\ bookmarks'[id].title = LineTitle(old[p + 1])
                                 /\ bookmarks'[id].tags = LineTags(old[p + 2])
                                 /\ bookmarks'[id].icon = old[p].icon
                   /\ {bookmarks'[i].order : i \in 1..n} = 1..n
                   /\ \A i, j \in 1..n :
                         cmpStringCase_String(bookmarks'[i].title, bookmarks'[j].title) < 0
                             => bookmarks'[i].order < bookmarks'[j].order]_vars

\* An old file of three records, with empty lines between them, was loaded:
\* the record titled "b", first in the file, has the last order.
C30_Witness ==
    /\ call.op = "load"
    /\ call.dir.ini = NoFile
    /\ call.dir.old # NoFile
    /\ \E p \in DOMAIN call.dir.old.lines : call.dir.old.lines[p].kind = "blank" /\ p > 1
    /\ DOMAIN bookmarks = {1, 2, 3}
    /\ bookmarks[1].title = "b"
    /\ bookmarks[1].order = 3

\* C31: load of a bookmarks.ini leaves the allocator at or above every table
\* id it loaded, the allocator never goes down afterwards, and every later
\* add returns an id above the allocator: an id no bookmark in the store has,
\* greater than all of them, with every record of the store left as it was.
C31_LoadRaisesAllocator ==
    [][/\ idEnum' >= idEnum
       /\ \A i \in DOMAIN bookmarks' : i <= idEnum'
       /\ \A a \in OrderAddArgs :
             AddCall(a) =>
                 /\ call'.ret = idEnum'
                 /\ call'.ret \notin DOMAIN bookmarks
                 /\ \A i \in DOMAIN bookmarks :
                       call'.ret > i /\ bookmarks'[i] = bookmarks[i]]_vars

\* A file whose largest table id is 3 was loaded, and the two adds after it
\* returned 4 and 5; the loaded record 3 is still there.
C31_Witness ==
    /\ call.op = "add"
    /\ call.ret = 5
    /\ {3, 4, 5} \subseteq DOMAIN bookmarks
    /\ bookmarks[3].url = UrlLowerX

\* C32: every bookmark with a parentId other than 0 has the id of a bookmark
\* of the store there, also when the remote source was removed while its
\* request was not yet finished.
C32_ParentsExist ==
    \A i \in DOMAIN bookmarks :
        bookmarks[i].parentId # 0 => bookmarks[i].parentId \in DOMAIN bookmarks

\* C33: no two bookmarks that requestFinished added have the same URL, also
\* when two requests finish at the same time.
C33_MergeAtomic ==
    \A i, j \in DOMAIN bookmarks :
        (i # j /\ IsMerged(bookmarks[i]) /\ IsMerged(bookmarks[j]))
            => bookmarks[i].url # bookmarks[j].url

\* C34: requestFinished is only ever called with a request that is in
\* remoteRequests, so its assertion holds: no command is handled twice, and
\* none after deinit has cancelled and released its request.
C34_AssertionHolds ==
    [][\A c \in commands : handleFinished(c) => c.req \in remoteRequests]_vars

\* C35: a thread that is in no store function does not own the mutex, and the
\* mutex is free when no thread is in one; the thread that owns it still has
\* to unlock it exactly as often as it holds it, every other thread as often
\* as it has yet to lock it; and the owner is never made to wait at a
\* lock_Mutex of its own, so a thread that waits is waiting for a thread that
\* can go on.
C35_BalancedLocks ==
    /\ mtx.owner # NoThread => pc[mtx.owner] = "run"
    /\ (\A t \in Threads : pc[t] = "idle") => mtx = [owner |-> NoThread, depth |-> 0]
    /\ \A t \in Threads :
          pc[t] = "run" =>
              /\ CountEvents(loc[t].rest, "unlock") - CountEvents(loc[t].rest, "lock")
                    = IF mtx.owner = t THEN mtx.depth ELSE 0
              /\ (mtx.owner = t /\ loc[t].rest # <<>> /\ Head(loc[t].rest) = "lock")
                    => CanLock(t)

\* A thread is inside add_Bookmarks inside requestFinished_Bookmarks, holding
\* the mutex twice, and the other thread waits at the lock_Mutex of remove.
C35_Witness ==
    /\ mtx = [owner |-> "t1", depth |-> 2]
    /\ loc["t1"].op = "requestFinished"
    /\ pc["t2"] = "run"
    /\ loc["t2"].op = "remove"
    /\ Len(loc["t2"].rest) = 4
    /\ ~CanLock("t2")

\* C36: recentFolder() is 0 or the id of a bookmark of the store that is a
\* folder.
C36_RecentFolderExists ==
    \/ recentFolder_Bookmarks = 0
    \/ /\ recentFolder_Bookmarks \in DOMAIN bookmarks
       /\ isFolder_Bookmark(bookmarks[recentFolder_Bookmarks])

\* C37: from the empty store, after any adds with either placement, removes,
\* reorders, sorts and merges of fetched links, no two bookmarks with the
\* same parentId have the same order.
C37_SiblingOrdersDistinct ==
    \A i, j \in DOMAIN bookmarks :
        (i # j /\ bookmarks[i].parentId = bookmarks[j].parentId)
            => bookmarks[i].order # bookmarks[j].order

\* reorder has just given a bookmark the order its sibling had, and the
\* sibling was moved one up.
C37_Witness ==
    /\ call.op = "reorder"
    /\ DOMAIN bookmarks = {1, 2}
    /\ bookmarks[1].parentId = bookmarks[2].parentId
    /\ bookmarks[call.id].order = call.newOrder
    /\ \E j \in DOMAIN bookmarks : j # call.id /\ bookmarks[j].order = call.newOrder + 1

\* C38: when every submitted request finishes and is handled at some time,
\* requests that are outstanding lead to a state where none is, reached by
\* the requestFinished that posts "bookmarks.changed", and in which
\* fetchRemote dispatches again.
C38_SyncTerminates ==
    (remoteRequests # {}) ~>
        /\ remoteRequests = {}
        /\ call.op = "requestFinished"
        /\ call.posted = 1
        /\ Fetched(bookmarks, remoteRequests, MainThread)
              = FetchedLocked(bookmarks, remoteRequests, MainThread)

\* The last request of a cycle has been handled, its source is still in the
\* store, and the next fetchRemote would submit a request for it.
C38_Witness ==
    /\ remoteRequests = {}
    /\ call.op = "requestFinished"
    /\ call.posted = 1
    /\ Fetched(bookmarks, remoteRequests, MainThread).submitted # {}

\* C39: a thread that reads the store under the mutex never finds a bookmark
\* that requestFinished added with the parentId 0, and requestFinished writes
\* the parentId to a record that is in the store.
C39_MergedParentAtomic ==
    /\ \A t \in Threads :
          pc[t] = "list_collect" =>
              \A i \in DOMAIN bookmarks : IsMerged(bookmarks[i]) => bookmarks[i].parentId # 0
    /\ \A t \in Threads :
          pc[t] = "rf_parent" => loc[t].ptrs # {} /\ loc[t].ptrs \cap dangling[t] = {}

\* ------------------------------------------------------------ indicators
SpecIndicators == Init /\ [][NextIndicators]_vars

\* The indicators that are marked active.
ActiveIndicators == {w \in Indicators : widgets[w].alive /\ widgets[w].selected}

\* C40: animCount_ is the number of indicators marked active, the common
\* timer exists exactly when animCount_ > 0 and it is the only timer running
\* (none when no indicator is active); so whenever stopTimer_ can be called,
\* for an active indicator, both of its assertions hold.
C40_TimerRefCount ==
    /\ animCount_ = Cardinality(ActiveIndicators)
    /\ timerId_ # 0 <=> animCount_ > 0
    /\ timers = IF animCount_ > 0 THEN {timerId_} ELSE {}
    /\ ActiveIndicators # {} => animCount_ > 0 /\ (animCount_ = 1 => timerId_ # 0)

\* Two indicators are active on the one timer, one of them on its way to 1.0
\* after "finished".
C40_Witness ==
    /\ Cardinality(ActiveIndicators) = 2
    /\ animCount_ = 2
    /\ timerId_ # 0
    /\ \E w \in Indicators : widgets[w].alive /\ widgets[w].target = 100

====
